---- MODULE Spec2Model ----
(***************************************************************************)
(* Retention & status lifecycle engine of the Right-to-Work checker.       *)
(*                                                                         *)
(* The store (rtw_records, deleted_records, audit_log, the document-scans  *)
(* bucket) is modelled with per-call atomicity; every client function is   *)
(* split at its awaits, every SQL function runs as one transaction.        *)
(***************************************************************************)
EXTENDS Integers, Sequences, FiniteSets, TLC

(* ------------------------------ bounds --------------------------------- *)

\* number of rtw_records rows that exist initially
NumRecords == 2
\* number of browser sessions that can run the client sweep
NumClients == 2
\* last calendar day the clock can reach (days are numbered from FirstDay)
MaxDay == 2
\* number of store calls that may fail in one behaviour
MaxFaults == 1
\* number of sweep invocations (client and server) in one behaviour
MaxSweeps == 2
\* number of audit_log rows in the scrubber development
MaxAuditRows == 4
\* number of UTC days the browser clock of the classifier ranges over
ClockDays == 2
\* number of records in the retention calculator's development
NumStaff == 1
\* number of years, from FirstYear on, that employment end dates fall in
EndYears == 3
\* number of generate_rtw_notifications invocations in one behaviour
MaxRuns == 2
\* number of rows the notifications table can hold
MaxNotifications == 3
\* number of client calls on the notifications table (createNotification,
\* dismissNotification) in one behaviour
MaxClientCalls == 1
\* number of dashboard renders in one behaviour
MaxRenders == 2
\* number of user accounts that sign in on the browser
NumUsers == 2
\* number of getUserProfile calls that can be under way at once
NumCallers == 2
\* number of signIn and signOut calls in one behaviour
MaxAuthOps == 3

(* ------------------------- program constants --------------------------- *)

\* audit_log.record_id is nullable; login/logout/export_excel rows carry none
NoRecordId == 0
\* the day the model starts on
FirstDay == 1

Ids == 1..NumRecords
Clients == 1..NumClients

\* sensitive_keys of scrub_audit_personal_data, in array order
sensitive_keys ==
  <<"person_name", "date_of_birth", "share_code", "verification_answers",
    "additional_notes", "document_scan_path", "document_scan_filename">>

SensitiveSet == {sensitive_keys[n] : n \in DOMAIN sensitive_keys}

\* the columns of rtw_records that to_jsonb(row) serialises (the seven
\* sensitive ones and the non-sensitive ones the model tracks)
Columns == SensitiveSet \cup {"id", "status", "deletion_due_date"}

\* a DATE column: <<>> is NULL, <<d>> is day d
NullDate == <<>>

VARIABLES
  today,            \* CURRENT_DATE / new Date(), as a day number
  rtw_records,      \* id -> <<>> (no row) or <<row>>
  storage,          \* ids that have objects under "<id>/" in document-scans
  deleted_records,  \* the ledger: set of entries, numbered per record id
  audit_log,        \* sequence of audit_log rows
  cachedProfile,    \* auth-service.js module variable: TRUE iff set
  sweep,            \* client -> state of its autoDeleteExpiredRecords call
  page,             \* the retention page with 'Delete now' buttons
  detail,           \* the record detail view's confirm-delete handler
  removal,          \* history: id -> who removed the row, and was it logged
  prior,            \* history: the last completed client sweep
  faults,           \* store calls that failed so far
  sweeps,           \* sweep invocations so far
  scrubbed,         \* history of the scrubber development
  classifier,       \* a browser's clock and zone, and a calculateStatus call
  employment,       \* rtw_records with the employment end date columns
  watched,          \* rtw_records with the columns the generator reads
  notifications,    \* the committed rows of the notifications table
  gen,              \* the generate_rtw_notifications transactions
  dashboard,        \* the dashboard's allRecords and its refreshStatuses call
  auth              \* the session, auth-service.js's cache, and its callers

vars == <<today, rtw_records, storage, deleted_records, audit_log,
          cachedProfile, sweep, page, detail, removal, prior, faults, sweeps,
          scrubbed, classifier, employment, watched, notifications, gen,
          dashboard, auth>>

\* the variables of the dashboard's and the session's developments
sessionVars == <<dashboard, auth>>

\* the variables of the classifier, calculator and generator developments
lifecycleVars == <<classifier, employment, watched, notifications, gen>>

\* the variables of the generator's development
notifyVars == <<watched, notifications, gen>>

\* the variables of the sweep and scrubber developments
retentionVars == <<today, rtw_records, storage, deleted_records, audit_log,
                   cachedProfile, sweep, page, detail, removal, prior,
                   faults, sweeps, scrubbed>>

(* ------------------------------ jsonb ---------------------------------- *)

\* a JSONB value of the audit log: SQL NULL, or an object given as a set of
\* <<key, value>> pairs
JsonNull == [null |-> TRUE, kv |-> {}]
JsonObj(pairs) == [null |-> FALSE, kv |-> pairs]

\* jsonb - text : delete the key; NULL - text is NULL
JsonMinus(j, k) ==
  IF j.null THEN j ELSE JsonObj({e \in j.kv : e[1] # k})

\* jsonb ? text : does the key exist at top level; NULL ? text is NULL
JsonHas(j, k) ==
  IF j.null THEN "null"
  ELSE IF \E e \in j.kv : e[1] = k THEN "true" ELSE "false"

\* SQL three-valued OR
SqlOr(a, b) ==
  IF a = "true" \/ b = "true" THEN "true"
  ELSE IF a = "null" \/ b = "null" THEN "null" ELSE "false"

\* record_id = target_record_id, with a NULL record_id comparing to NULL
SqlIdEq(rid, target) ==
  IF rid = NoRecordId THEN "null" ELSE IF rid = target THEN "true" ELSE "false"

\* SQL three-valued AND
SqlAnd(a, b) ==
  IF a = "false" \/ b = "false" THEN "false"
  ELSE IF a = "null" \/ b = "null" THEN "null" ELSE "true"

\* to_jsonb(row): every column, the value abstracted to a number that
\* identifies the row version (the deletion_due_date keeps its own value)
to_jsonb(id, row) ==
  JsonObj({<<c, IF c = "deletion_due_date" THEN row.deletion_due_date
                ELSE <<id>>>> : c \in Columns})

(* ---------------------------- audit log -------------------------------- *)

AuditRow(action, rid, old, new) ==
  [action |-> action, record_id |-> rid, old_values |-> old, new_values |-> new]

\* trigger rtw_records_audit, AFTER INSERT OR UPDATE OR DELETE, FOR EACH ROW
audit_rtw_changes(log, op, id, old, new) ==
  IF op = "INSERT" THEN
    Append(log, AuditRow("create", id, JsonNull, to_jsonb(id, new)))
  ELSE IF op = "UPDATE" THEN
    Append(log, AuditRow("update", id, to_jsonb(id, old), to_jsonb(id, new)))
  ELSE
    Append(log, AuditRow("delete", id, to_jsonb(id, old), JsonNull))

\* logAuditEvent(action, extra): one audit_log row with the extra fields
logAuditEvent(log, action, rid, new) ==
  Append(log, AuditRow(action, rid, JsonNull, new))

\* (a variant whose WHERE asks for the key in both snapshots)
ScrubKey_bothSnapshots(log, target, k) ==
  [n \in DOMAIN log |->
     IF SqlAnd(SqlIdEq(log[n].record_id, target),
               SqlAnd(JsonHas(log[n].old_values, k),
                      JsonHas(log[n].new_values, k))) = "true"
     THEN [log[n] EXCEPT !.old_values = JsonMinus(@, k),
                         !.new_values = JsonMinus(@, k)]
     ELSE log[n]]

\* one UPDATE of the FOREACH loop of scrub_audit_personal_data
ScrubKey(log, target, k) ==
  [n \in DOMAIN log |->
     IF SqlAnd(SqlIdEq(log[n].record_id, target),
               SqlOr(JsonHas(log[n].old_values, k),
                     JsonHas(log[n].new_values, k))) = "true"
     THEN [log[n] EXCEPT !.old_values = JsonMinus(@, k),
                         !.new_values = JsonMinus(@, k)]
     ELSE log[n]]

\* (a variant that leaves the loop after the first UPDATE that found rows)
RECURSIVE ScrubFrom_exitWhenFound(_, _, _)
ScrubFrom_exitWhenFound(log, target, n) ==
  IF n > Len(sensitive_keys) THEN log
  ELSE LET next == ScrubKey(log, target, sensitive_keys[n])
       IN IF next # log THEN next
          ELSE ScrubFrom_exitWhenFound(next, target, n + 1)

\* the FOREACH loop from the n-th key on
RECURSIVE ScrubFrom(_, _, _)
ScrubFrom(log, target, n) ==
  IF n > Len(sensitive_keys) THEN log
  ELSE ScrubFrom(ScrubKey(log, target, sensitive_keys[n]), target, n + 1)

\* scrub_audit_personal_data(target_record_id)
scrub_audit_personal_data(log, target) == ScrubFrom(log, target, 1)

(* ------------------------------ store ---------------------------------- *)

\* a row of rtw_records; person_name is identified with the id
Row(due) == [deletion_due_date |-> due]

NoRow == <<>>
HasRow(recs, id) == recs[id] # NoRow
RowOf(recs, id) == recs[id][1]

\* a query that leaves out the records due on the day itself
IsDue_strict(row, day) ==
  row.deletion_due_date # NullDate /\ row.deletion_due_date[1] < day

\* deletion_due_date IS NOT NULL AND deletion_due_date <= day
IsDue(row, day) ==
  row.deletion_due_date # NullDate /\ row.deletion_due_date[1] <= day

DueIds(recs, day) == {i \in Ids : HasRow(recs, i) /\ IsDue(RowOf(recs, i), day)}

\* what a select returns for a row: the record object the client holds
Snapshot(recs, i) ==
  [id |-> i, person_name |-> i,
   deletion_due_date |-> RowOf(recs, i).deletion_due_date]

\* .order('deletion_due_date', { ascending: true }), ties in id order
RECURSIVE OrderByDue(_, _)
OrderByDue(S, recs) ==
  IF S = {} THEN <<>>
  ELSE LET m == CHOOSE x \in S : \A y \in S :
                  \/ RowOf(recs, x).deletion_due_date[1]
                       < RowOf(recs, y).deletion_due_date[1]
                  \/ /\ RowOf(recs, x).deletion_due_date[1]
                        = RowOf(recs, y).deletion_due_date[1]
                     /\ x <= y
       IN <<Snapshot(recs, m)>> \o OrderByDue(S \ {m}, recs)

\* a query with .eq('deletion_due_date', today): the rows due on the day
fetchRecordsPendingDeletion_dueToday(recs, day) ==
  OrderByDue({i \in DueIds(recs, day) :
                RowOf(recs, i).deletion_due_date[1] = day}, recs)

\* fetchRecordsPendingDeletion(): the rows past their deletion due date
fetchRecordsPendingDeletion(recs, day) == OrderByDue(DueIds(recs, day), recs)

LedgerFor(ledger, id) == {e \in ledger : e.original_record_id = id}

\* INSERT INTO deleted_records: no key but the generated id, so a second
\* entry for the same original_record_id is accepted
InsertDeleted(ledger, id, due, email, reason) ==
  ledger \cup {[original_record_id |-> id,
                n |-> Cardinality(LedgerFor(ledger, id)) + 1,
                deletion_due_date |-> due,
                deleted_by_email |-> email,
                reason |-> reason]}

\* logRecordDeletion(record, userId, userEmail)
logRecordDeletion(ledger, record, userEmail) ==
  InsertDeleted(ledger, record.id, record.deletion_due_date, userEmail,
                IF record.deletion_due_date # NullDate
                THEN "GDPR retention period expired"
                ELSE "Manual deletion by manager")

\* the results the storage calls of deleteRecordScans can have
ScanOutcomes(store, id) ==
  {"ok", "list_error"} \cup (IF id \in store THEN {"remove_error"} ELSE {})

\* deleteRecordScans(recordId): list the folder, remove what was listed;
\* neither call's error is looked at, so it never throws
deleteRecordScans(store, id, outcome) ==
  IF outcome = "ok" THEN store \ {id} ELSE store

\* (a variant whose filter matches no row)
DeleteRow_noMatch(recs, id) == recs

\* DELETE FROM rtw_records WHERE id = ... (no error when no row matches)
DeleteRow(recs, id) == [recs EXCEPT ![id] = NoRow]

\* the audit_log after the delete and its row trigger
DeleteAudit(recs, log, id) ==
  IF HasRow(recs, id)
  THEN audit_rtw_changes(log, "DELETE", id, RowOf(recs, id), RowOf(recs, id))
  ELSE log

(* ----------------------------- histories ------------------------------- *)

\* removal[id]: which path removed the row of id (by), whether a ledger
\* entry for id existed at that moment (logged), and whether one existed
\* whenever a retention path removed scans of id (purgeLogged)
NotRemoved == [by |-> "none", logged |-> FALSE, purgeLogged |-> TRUE]

Removed(rem, recs, ledger, id, path) ==
  IF HasRow(recs, id)
  THEN [rem EXCEPT ![id].by = path, ![id].logged = LedgerFor(ledger, id) # {}]
  ELSE rem

RetentionPaths == {"sweep", "server", "page"}

Purged(rem, store, ledger, id, path, outcome) ==
  IF id \in store /\ outcome = "ok" /\ path \in RetentionPaths
  THEN [rem EXCEPT ![id].purgeLogged = @ /\ LedgerFor(ledger, id) # {}]
  ELSE rem

\* prior.done: a client sweep has returned and nobody else has written to
\* the store since; prior.ok: moreover it returned no errors, and since it
\* fetched its candidates nobody else wrote and the date did not change
NoPrior == [done |-> FALSE, ok |-> FALSE]

Running(sw) == sw.pc \notin {"idle", "done"}

\* a write to the store by somebody other than client p (p = 0: not a client)
Disturbed(sw, p) ==
  [q \in Clients |->
     IF q # p /\ Running(sw[q])
     THEN [sw[q] EXCEPT !.succ = FALSE, !.succOk = FALSE, !.undisturbed = FALSE]
     ELSE sw[q]]

(* --------------------- autoDeleteExpiredRecords ------------------------ *)

IdleSweep ==
  [pc |-> "idle", records |-> <<>>, i |-> 0, userEmail |-> "",
   principal |-> "unknown",
   deleted |-> <<>>, errors |-> <<>>,
   stepFailed |-> {}, wrote |-> FALSE,
   succ |-> FALSE, succOk |-> FALSE, undisturbed |-> FALSE]

Err(name, msg) == [name |-> name, msg |-> msg]

\* the candidate the for-loop is at
Current(sw) == sw.records[sw.i]

\* the loop moves on to the next candidate, or the function returns
NextCandidate(sw) ==
  IF sw.i + 1 > Len(sw.records)
  THEN [sw EXCEPT !.pc = "done"]
  ELSE [sw EXCEPT !.pc = "log", !.i = sw.i + 1]

PriorAfter(pr, sw) ==
  IF sw.pc = "done"
  THEN [done |-> TRUE, ok |-> sw.errors = <<>> /\ sw.undisturbed]
  ELSE pr

\* lines 61-71: the candidate query; its failure or an empty list returns
autoDelete_fetch(p) ==
  /\ ~Running(sweep[p])
  /\ sweeps < MaxSweeps
  /\ sweeps' = sweeps + 1
  /\ \E failed \in BOOLEAN :
       LET start == [IdleSweep EXCEPT !.succ = prior.done,
                                      !.succOk = prior.ok /\ ~failed,
                                      !.undisturbed = TRUE]
           recs  == fetchRecordsPendingDeletion(rtw_records, today)
           next  == IF failed
                    THEN [start EXCEPT !.pc = "done",
                            !.errors = <<Err(0, "Failed to fetch records pending deletion")>>]
                    ELSE IF Len(recs) = 0
                    THEN [start EXCEPT !.pc = "done"]
                    ELSE [start EXCEPT !.pc = "identify", !.records = recs]
       IN /\ failed => faults < MaxFaults
          /\ faults' = IF failed THEN faults + 1 ELSE faults
          /\ sweep' = [sweep EXCEPT ![p] = next]
          /\ prior' = PriorAfter(prior, next)
  /\ UNCHANGED <<today, rtw_records, storage, deleted_records, audit_log,
                 cachedProfile, page, detail, removal, scrubbed>>

\* the results getUser() can have: the session's user, or null
UserOutcomes == {"user", "null"}

\* the results getUserProfile() can have: the cached profile; null when
\* there is no user; else the profiles row, or the lookup's error thrown
ProfileOutcomes(cached, user) ==
  IF cached THEN {"cached"}
  ELSE IF user = "null" THEN {"none"}
  ELSE {"fetched", "error"}

\* (a variant that reads user?.id, which does not throw)
Resolved_optionalChaining(user, o) == o # "error"

\* user.id throws a TypeError when user is null, and getUserProfile throws
\* the lookup's error: either way the catch is entered
Resolved(user, o) == user = "user" /\ o # "error"

\* lines 73-82: resolve the acting user
autoDelete_identify(p) ==
  /\ sweep[p].pc = "identify"
  /\ \E user \in UserOutcomes : \E o \in ProfileOutcomes(cachedProfile, user) :
       LET resolved == Resolved(user, o)
           seen == [sweep[p] EXCEPT !.principal =
                      IF user = "null" THEN "no user"
                      ELSE IF o = "error" THEN "no profile" ELSE "user"]
           next == IF resolved
                   THEN [seen EXCEPT !.pc = "log", !.i = 1,
                                     !.userEmail = "manager"]
                   ELSE [seen EXCEPT !.pc = "done",
                           !.errors = <<Err(0, "Could not identify current user")>>]
       IN /\ o = "error" => faults < MaxFaults
          /\ faults' = IF o = "error" THEN faults + 1 ELSE faults
          /\ cachedProfile' = (cachedProfile \/ o = "fetched")
          /\ sweep' = [sweep EXCEPT ![p] = next]
          /\ prior' = PriorAfter(prior, next)
  /\ UNCHANGED <<today, rtw_records, storage, deleted_records, audit_log,
                 page, detail, removal, sweeps, scrubbed>>

\* line 86: logRecordDeletion; its error goes to the catch of line 90
autoDelete_log(p) ==
  /\ sweep[p].pc = "log"
  /\ \E failed \in BOOLEAN :
       LET rec  == Current(sweep[p])
           next == IF failed
                   THEN NextCandidate([sweep[p] EXCEPT
                          !.errors = Append(@, Err(rec.person_name,
                                            "Failed to log record deletion")),
                          !.stepFailed = @ \cup {<<rec.id, "log">>}])
                   ELSE [sweep[p] EXCEPT !.pc = "scans", !.wrote = TRUE]
       IN /\ failed => faults < MaxFaults
          /\ faults' = IF failed THEN faults + 1 ELSE faults
          /\ deleted_records' =
               IF failed THEN deleted_records
               ELSE logRecordDeletion(deleted_records, rec, sweep[p].userEmail)
          /\ sweep' = IF failed THEN [sweep EXCEPT ![p] = next]
                      ELSE [Disturbed(sweep, p) EXCEPT ![p] = next]
          /\ prior' = IF failed THEN PriorAfter(prior, next) ELSE NoPrior
  /\ UNCHANGED <<today, rtw_records, storage, audit_log, cachedProfile, page,
                 detail, removal, sweeps, scrubbed>>

\* line 87: deleteRecordScans never throws, the loop body goes on
autoDelete_scans(p) ==
  /\ sweep[p].pc = "scans"
  /\ LET rec == Current(sweep[p])
     IN \E o \in ScanOutcomes(storage, rec.id) :
          LET store == deleteRecordScans(storage, rec.id, o)
              next  == [sweep[p] EXCEPT
                          !.pc = "delete",
                          !.wrote = @ \/ store # storage,
                          !.stepFailed = IF o = "ok" THEN @
                                         ELSE @ \cup {<<rec.id, "scans">>}]
          IN /\ o # "ok" => faults < MaxFaults
             /\ faults' = IF o # "ok" THEN faults + 1 ELSE faults
             /\ storage' = store
             /\ removal' = Purged(removal, storage, deleted_records, rec.id,
                                  "sweep", o)
             /\ sweep' = IF store = storage THEN [sweep EXCEPT ![p] = next]
                         ELSE [Disturbed(sweep, p) EXCEPT ![p] = next]
             /\ prior' = IF store = storage THEN prior ELSE NoPrior
  /\ UNCHANGED <<today, rtw_records, deleted_records, audit_log,
                 cachedProfile, page, detail, sweeps, scrubbed>>

\* a deleteRecord that throws when no row matched the id
DeleteResult_goneIsError(recs, id, fault) ==
  IF fault \/ ~HasRow(recs, id) THEN "error" ELSE "ok"

\* deleteRecord(id) throws exactly when the store returns an error; a delete
\* that matches no row returns none
DeleteResult(recs, id, fault) ==
  IF fault THEN "error" ELSE "ok"

\* a catch that takes back the ledger entry written for the candidate
CatchLedger_undo(ledger, rec) == ledger \ LedgerFor(ledger, rec.id)

\* lines 90-92: the catch pushes the message to errors and does nothing
\* else, so the ledger is as the failed loop body left it
CatchLedger(ledger, rec) == ledger

\* lines 88-92: deleteRecord, then the name is pushed to deleted; its error
\* goes to the catch
autoDelete_delete(p) ==
  /\ sweep[p].pc = "delete"
  /\ \E fault \in BOOLEAN :
       LET rec  == Current(sweep[p])
           failed == DeleteResult(rtw_records, rec.id, fault) = "error"
           gone == ~failed /\ HasRow(rtw_records, rec.id)
           next == IF failed
                   THEN NextCandidate([sweep[p] EXCEPT
                          !.errors = Append(@, Err(rec.person_name,
                                            "Failed to delete record")),
                          !.stepFailed = IF fault
                                         THEN @ \cup {<<rec.id, "delete">>}
                                         ELSE @])
                   ELSE NextCandidate([sweep[p] EXCEPT
                          !.deleted = Append(@, rec.person_name),
                          !.wrote = @ \/ gone])
       IN /\ fault => faults < MaxFaults
          /\ faults' = IF fault THEN faults + 1 ELSE faults
          /\ rtw_records' = IF gone THEN DeleteRow(rtw_records, rec.id)
                            ELSE rtw_records
          /\ audit_log' = IF gone THEN DeleteAudit(rtw_records, audit_log, rec.id)
                          ELSE audit_log
          /\ removal' = IF gone
                        THEN Removed(removal, rtw_records, deleted_records,
                                     rec.id, "sweep")
                        ELSE removal
          /\ sweep' = IF gone THEN [Disturbed(sweep, p) EXCEPT ![p] = next]
                      ELSE [sweep EXCEPT ![p] = next]
          /\ prior' = PriorAfter(IF gone THEN NoPrior ELSE prior, next)
          /\ deleted_records' = IF failed
                                THEN CatchLedger(deleted_records, rec)
                                ELSE deleted_records
  /\ UNCHANGED <<today, storage, cachedProfile, page, detail, sweeps,
                 scrubbed>>

autoDeleteExpiredRecords(p) ==
  \/ autoDelete_fetch(p)
  \/ autoDelete_identify(p)
  \/ autoDelete_log(p)
  \/ autoDelete_scans(p)
  \/ autoDelete_delete(p)

(* ------------------ retention page: 'Delete now' ----------------------- *)

ClosedPage == [pc |-> "closed", pendingRecords |-> <<>>, k |-> 0]

\* render(el): the page loads the pending records it shows buttons for
retention_render ==
  /\ page.pc \in {"closed", "render"}
  /\ sweeps < MaxSweeps
  /\ \E failed \in BOOLEAN :
       /\ failed => faults < MaxFaults
       /\ faults' = IF failed THEN faults + 1 ELSE faults
       /\ page' = IF failed THEN ClosedPage
                  ELSE [pc |-> "ready", k |-> 0,
                        pendingRecords |->
                          fetchRecordsPendingDeletion(rtw_records, today)]
  /\ UNCHANGED <<today, rtw_records, storage, deleted_records, audit_log,
                 cachedProfile, sweep, detail, removal, prior, sweeps,
                 scrubbed>>

\* the click handler up to logRecordDeletion's arguments: getUser,
\* getUserProfile, user.id
retention_click(k) ==
  /\ page.pc = "ready"
  /\ k \in 1..Len(page.pendingRecords)
  /\ sweeps < MaxSweeps
  /\ sweeps' = sweeps + 1
  /\ \E user \in UserOutcomes : \E o \in ProfileOutcomes(cachedProfile, user) :
       LET resolved == Resolved(user, o)
       IN /\ o = "error" => faults < MaxFaults
          /\ faults' = IF o = "error" THEN faults + 1 ELSE faults
          /\ cachedProfile' = (cachedProfile \/ o = "fetched")
          /\ page' = IF resolved THEN [page EXCEPT !.pc = "log", !.k = k]
                     ELSE page
  /\ UNCHANGED <<today, rtw_records, storage, deleted_records, audit_log,
                 sweep, detail, removal, prior, scrubbed>>

retention_log ==
  /\ page.pc = "log"
  /\ \E failed \in BOOLEAN :
       /\ failed => faults < MaxFaults
       /\ faults' = IF failed THEN faults + 1 ELSE faults
       /\ deleted_records' =
            IF failed THEN deleted_records
            ELSE logRecordDeletion(deleted_records,
                                   page.pendingRecords[page.k], "manager")
       /\ page' = [page EXCEPT !.pc = IF failed THEN "ready" ELSE "scans"]
       /\ sweep' = IF failed THEN sweep ELSE Disturbed(sweep, 0)
       /\ prior' = IF failed THEN prior ELSE NoPrior
  /\ UNCHANGED <<today, rtw_records, storage, audit_log, cachedProfile,
                 detail, removal, sweeps, scrubbed>>

retention_scans ==
  /\ page.pc = "scans"
  /\ LET id == page.pendingRecords[page.k].id
     IN \E o \in ScanOutcomes(storage, id) :
          LET store == deleteRecordScans(storage, id, o)
          IN /\ o # "ok" => faults < MaxFaults
             /\ faults' = IF o # "ok" THEN faults + 1 ELSE faults
             /\ storage' = store
             /\ removal' = Purged(removal, storage, deleted_records, id,
                                  "page", o)
             /\ sweep' = IF store = storage THEN sweep ELSE Disturbed(sweep, 0)
             /\ prior' = IF store = storage THEN prior ELSE NoPrior
  /\ page' = [page EXCEPT !.pc = "delete"]
  /\ UNCHANGED <<today, rtw_records, deleted_records, audit_log,
                 cachedProfile, detail, sweeps, scrubbed>>

\* deleteRecord, then the page renders itself again
retention_delete ==
  /\ page.pc = "delete"
  /\ \E failed \in BOOLEAN :
       LET id   == page.pendingRecords[page.k].id
           gone == ~failed /\ HasRow(rtw_records, id)
       IN /\ failed => faults < MaxFaults
          /\ faults' = IF failed THEN faults + 1 ELSE faults
          /\ rtw_records' = IF gone THEN DeleteRow(rtw_records, id)
                            ELSE rtw_records
          /\ audit_log' = IF gone THEN DeleteAudit(rtw_records, audit_log, id)
                          ELSE audit_log
          /\ removal' = IF gone
                        THEN Removed(removal, rtw_records, deleted_records,
                                     id, "page")
                        ELSE removal
          /\ page' = [page EXCEPT !.pc = IF failed THEN "ready" ELSE "render"]
          /\ sweep' = IF gone THEN Disturbed(sweep, 0) ELSE sweep
          /\ prior' = IF gone THEN NoPrior ELSE prior
  /\ UNCHANGED <<today, storage, deleted_records, cachedProfile, detail,
                 sweeps, scrubbed>>

RetentionPage ==
  \/ retention_render
  \/ \E k \in 1..NumRecords : retention_click(k)
  \/ retention_log
  \/ retention_scans
  \/ retention_delete

(* --------------- record detail view: confirm delete -------------------- *)

NoDetail == [pc |-> "idle", id |-> 0]

\* the manager confirms the deletion of the record the view shows, and the
\* handler calls deleteRecordScans
detail_confirm(id) ==
  /\ detail.pc = "idle"
  /\ HasRow(rtw_records, id)
  /\ sweeps < MaxSweeps
  /\ sweeps' = sweeps + 1
  /\ \E o \in ScanOutcomes(storage, id) :
       LET store == deleteRecordScans(storage, id, o)
       IN /\ o # "ok" => faults < MaxFaults
          /\ faults' = IF o # "ok" THEN faults + 1 ELSE faults
          /\ storage' = store
          /\ removal' = Purged(removal, storage, deleted_records, id,
                               "detail", o)
          /\ sweep' = IF store = storage THEN sweep ELSE Disturbed(sweep, 0)
          /\ prior' = IF store = storage THEN prior ELSE NoPrior
  /\ detail' = [pc |-> "delete", id |-> id]
  /\ UNCHANGED <<today, rtw_records, deleted_records, audit_log,
                 cachedProfile, page, scrubbed>>

\* deleteRecord and navigate('/'), or the failure banner
detail_delete ==
  /\ detail.pc = "delete"
  /\ \E failed \in BOOLEAN :
       LET gone == ~failed /\ HasRow(rtw_records, detail.id)
       IN /\ failed => faults < MaxFaults
          /\ faults' = IF failed THEN faults + 1 ELSE faults
          /\ rtw_records' = IF gone THEN DeleteRow(rtw_records, detail.id)
                            ELSE rtw_records
          /\ audit_log' = IF gone
                          THEN DeleteAudit(rtw_records, audit_log, detail.id)
                          ELSE audit_log
          /\ removal' = IF gone
                        THEN Removed(removal, rtw_records, deleted_records,
                                     detail.id, "detail")
                        ELSE removal
          /\ sweep' = IF gone THEN Disturbed(sweep, 0) ELSE sweep
          /\ prior' = IF gone THEN NoPrior ELSE prior
  /\ detail' = NoDetail
  /\ UNCHANGED <<today, storage, deleted_records, cachedProfile, page,
                 sweeps, scrubbed>>

RecordDetail ==
  \/ \E id \in Ids : detail_confirm(id)
  \/ detail_delete

(* ---------------- auto_delete_expired_records (pg_cron) ---------------- *)

\* the tables as the transaction sees them
Tables(recs, ledger, store, log, rem) ==
  [recs |-> recs, ledger |-> ledger, store |-> store, log |-> log, rem |-> rem]

\* (a variant that deletes the row before it logs the deletion)
ServerDeleteOne_deleteFirst(t, rec) ==
  LET purged  == [t EXCEPT
                    !.store = @ \ {rec.id},
                    !.rem = Purged(t.rem, t.store, t.ledger, rec.id,
                                   "server", "ok")]
      deleted == [purged EXCEPT
                    !.recs = DeleteRow(purged.recs, rec.id),
                    !.log  = DeleteAudit(purged.recs, purged.log, rec.id),
                    !.rem  = Removed(purged.rem, purged.recs, purged.ledger,
                                     rec.id, "server")]
      logged  == [deleted EXCEPT !.ledger =
                    InsertDeleted(deleted.ledger, rec.id, rec.deletion_due_date,
                                  "system@auto-delete",
                                  "GDPR retention period expired (auto)")]
  IN [logged EXCEPT !.log = scrub_audit_personal_data(logged.log, rec.id)]

\* the body of the FOR loop for one selected row
ServerDeleteOne(t, rec) ==
  LET logged  == [t EXCEPT !.ledger =
                    InsertDeleted(t.ledger, rec.id, rec.deletion_due_date,
                                  "system@auto-delete",
                                  "GDPR retention period expired (auto)")]
      purged  == [logged EXCEPT
                    !.store = @ \ {rec.id},
                    !.rem = Purged(logged.rem, logged.store, logged.ledger,
                                   rec.id, "server", "ok")]
      deleted == [purged EXCEPT
                    !.recs = DeleteRow(purged.recs, rec.id),
                    !.log  = DeleteAudit(purged.recs, purged.log, rec.id),
                    !.rem  = Removed(purged.rem, purged.recs, purged.ledger,
                                     rec.id, "server")]
  IN [deleted EXCEPT !.log = scrub_audit_personal_data(deleted.log, rec.id)]

RECURSIVE ServerLoop(_, _, _)
ServerLoop(t, cands, n) ==
  IF n > Len(cands) THEN t
  ELSE ServerLoop(ServerDeleteOne(t, cands[n]), cands, n + 1)

\* the function is one transaction: it commits the whole loop, or an error
\* raised in it rolls everything back
auto_delete_expired_records ==
  /\ sweeps < MaxSweeps
  /\ sweeps' = sweeps + 1
  /\ \E failed \in BOOLEAN :
       LET cands == fetchRecordsPendingDeletion(rtw_records, today)
           t0 == Tables(rtw_records, deleted_records, storage, audit_log, removal)
           t1 == IF failed THEN t0 ELSE ServerLoop(t0, cands, 1)
       IN /\ failed => (faults < MaxFaults /\ Len(cands) > 0)
          /\ faults' = IF failed THEN faults + 1 ELSE faults
          /\ rtw_records' = t1.recs
          /\ deleted_records' = t1.ledger
          /\ storage' = t1.store
          /\ audit_log' = t1.log
          /\ removal' = t1.rem
          /\ sweep' = IF t1 = t0 THEN sweep ELSE Disturbed(sweep, 0)
          /\ prior' = IF t1 = t0 THEN prior ELSE NoPrior
  /\ UNCHANGED <<today, cachedProfile, page, detail, scrubbed>>

(* ------------------------------ clock ---------------------------------- *)

\* midnight passes
AdvanceDay ==
  /\ today < MaxDay
  /\ today' = today + 1
  /\ prior' = [prior EXCEPT !.ok = FALSE]
  /\ sweep' = [q \in Clients |->
                 IF Running(sweep[q])
                 THEN [sweep[q] EXCEPT !.succOk = FALSE, !.undisturbed = FALSE]
                 ELSE sweep[q]]
  /\ UNCHANGED <<rtw_records, storage, deleted_records, audit_log,
                 cachedProfile, page, detail, removal, faults, sweeps,
                 scrubbed>>

(* -------------------------- status classifier -------------------------- *)

\* a JavaScript Date is an instant, counted here in hours; a browser's zone
\* is its offset east of UTC in hours
HoursPerDay == 24
\* the 28 days of the warning window
WarningDays == 28
\* the UTC day the modelled clocks start on
BaseDay == 10
TzOffsets == {-5, 0, 1}
ClockHours == {0, 4, 12, 23}

\* the calendar day a browser in zone tz shows at instant t
LocalDay(t, tz) == (t + tz) \div HoursPerDay

\* new Date(s + 'T00:00:00') read as UTC midnight
ParseLocal_asUTC(s, tz) == s[1] * HoursPerDay

\* new Date(s + 'T00:00:00'): a date-time string without zone is local time
ParseLocal(s, tz) == s[1] * HoursPerDay - tz

\* today.setUTCHours(0, 0, 0, 0): UTC midnight of the instant t
setHours0_utc(t, tz) == (t \div HoursPerDay) * HoursPerDay

\* today.setHours(0, 0, 0, 0): local midnight of the instant t
setHours0(t, tz) == LocalDay(t, tz) * HoursPerDay - tz

\* new Date().toISOString().slice(0, 10): the UTC calendar day of instant t
\* (CURRENT_DATE of a server whose zone is UTC is the same day)
toISODay(t) == t \div HoursPerDay

\* d.setDate(d.getDate() + n) on a local midnight
addDays(t, n) == t + n * HoursPerDay

\* calculateStatus(record) called at instant now in zone tz
calculateStatus(record, now, tz) ==
  LET td          == setHours0(now, tz)
      warningDate == addDays(td, WarningDays)
      set(f)      == f # NullDate
  IN IF record.onboarding_id /\ ~set(record.check_date)
       THEN "pending_onboarding"
     ELSE IF set(record.deletion_due_date)
             /\ ParseLocal(record.deletion_due_date, tz) <= td
       THEN "pending_deletion"
     ELSE IF set(record.expiry_date)
             /\ ParseLocal(record.expiry_date, tz) < td
       THEN "expired"
     ELSE IF set(record.follow_up_date)
             /\ ParseLocal(record.follow_up_date, tz) < td
       THEN "follow_up_overdue"
     ELSE IF set(record.follow_up_date)
             /\ ParseLocal(record.follow_up_date, tz) <= warningDate
       THEN "follow_up_due"
     ELSE IF set(record.expiry_date)
             /\ ParseLocal(record.expiry_date, tz) <= warningDate
       THEN "follow_up_due"
     ELSE "valid"

\* the dates a classified record can carry: none, and the days around the
\* clock's day and around the end of the warning window
DateChoices ==
  {NullDate} \cup {<<BaseDay + k>> : k \in {-1, 0, 1}}
             \cup {<<BaseDay + WarningDays + k>> : k \in {0, 1, 2}}

Inputs ==
  [onboarding_id : BOOLEAN, check_date : {NullDate, <<BaseDay>>},
   deletion_due_date : DateChoices, expiry_date : DateChoices,
   follow_up_date : DateChoices]

Instants ==
  {(BaseDay + k) * HoursPerDay + h : k \in 0..(ClockDays - 1),
                                      h \in ClockHours}

NoClassifier ==
  [now |-> BaseDay * HoursPerDay, tz |-> 0, called |-> FALSE,
   record |-> [onboarding_id |-> FALSE, check_date |-> NullDate,
               deletion_due_date |-> NullDate, expiry_date |-> NullDate,
               follow_up_date |-> NullDate],
   status |-> ""]

\* a record is handed to the classifier
classify_input ==
  /\ ~classifier.called
  /\ classifier.record = NoClassifier.record
  /\ \E r \in Inputs : classifier' = [classifier EXCEPT !.record = r]
  /\ UNCHANGED <<retentionVars, sessionVars, employment, notifyVars>>

\* time passes on the browser's clock
classify_tick ==
  /\ ~classifier.called
  /\ \E t \in Instants :
       /\ t > classifier.now
       /\ classifier' = [classifier EXCEPT !.now = t]
  /\ UNCHANGED <<retentionVars, sessionVars, employment, notifyVars>>

\* calculateStatus(record)
classify_call ==
  /\ ~classifier.called
  /\ classifier' =
       [classifier EXCEPT
          !.called = TRUE,
          !.status = calculateStatus(classifier.record, classifier.now,
                                     classifier.tz)]
  /\ UNCHANGED <<retentionVars, sessionVars, employment, notifyVars>>

\* the next record is looked at
classify_return ==
  /\ classifier.called
  /\ classifier' = [classifier EXCEPT !.called = FALSE, !.status = "",
                                      !.record = NoClassifier.record]
  /\ UNCHANGED <<retentionVars, sessionVars, employment, notifyVars>>

(* ------------------------ retention calculator ------------------------- *)

\* calendar dates are <<year, month, day>>; day 0 is 1 January of FirstYear
FirstYear == 2022
Staff == 1..NumStaff

IsLeap(y) == y % 4 = 0 /\ (y % 100 # 0 \/ y % 400 = 0)

DaysInMonth(y, m) ==
  IF m = 2 THEN (IF IsLeap(y) THEN 29 ELSE 28)
  ELSE IF m \in {4, 6, 9, 11} THEN 30 ELSE 31

RECURSIVE DaysBeforeMonth(_, _)
DaysBeforeMonth(y, m) ==
  IF m = 1 THEN 0 ELSE DaysBeforeMonth(y, m - 1) + DaysInMonth(y, m - 1)

DaysBeforeYear(y) ==
  (y - FirstYear) * 365 + Cardinality({k \in FirstYear..(y - 1) : IsLeap(k)})

\* the day number of year y, month m, day d; a day past the end of the
\* month runs into the next month, as in the Date constructor and setters
MakeDay(y, m, d) == DaysBeforeYear(y) + DaysBeforeMonth(y, m) + d - 1

Years == FirstYear..(FirstYear + EndYears + 2)

\* the calendar date of a day number: getFullYear, getMonth and getDate
DateOfDay(n) ==
  LET y == CHOOSE k \in Years :
             DaysBeforeYear(k) <= n /\ n < DaysBeforeYear(k + 1)
      m == CHOOSE k \in 1..12 :
             /\ MakeDay(y, k, 1) <= n
             /\ n < MakeDay(y, k, 1) + DaysInMonth(y, k)
  IN <<y, m, n - MakeDay(y, m, 1) + 1>>

\* new Date(value + 'T00:00:00') for a 'YYYY-MM-DD' value
ParseLocalDate(value, tz) ==
  MakeDay(value[1], value[2], value[3]) * HoursPerDay - tz

\* d.setFullYear(d.getFullYear() + n): the local fields with the year moved
setFullYearPlus(t, tz, n) ==
  LET c == DateOfDay(LocalDay(t, tz))
  IN MakeDay(c[1] + n, c[2], c[3]) * HoursPerDay
       + ((t + tz) % HoursPerDay) - tz

\* d.toISOString().slice(0, 10): the UTC calendar date of the instant
toISODate(t) == DateOfDay(t \div HoursPerDay)

\* the values the end date input can hold
EndDates ==
  {c \in {<<FirstYear + k, md[1], md[2]>> :
             k \in 0..(EndYears - 1),
             md \in {<<1, 1>>, <<2, 28>>, <<2, 29>>, <<3, 1>>, <<6, 15>>,
                     <<12, 31>>}} :
     c[3] <= DaysInMonth(c[1], c[2])}

\* the updates of the save-end-date handler that leave deletion_due_date out
SaveEndDateUpdates_endOnly(value, tz) ==
  [employment_end_date |-> value]

\* the updates the save-end-date handler passes to updateRecord
SaveEndDateUpdates(value, tz) ==
  [employment_end_date |-> value,
   deletion_due_date |->
     IF value = NullDate THEN NullDate
     ELSE toISODate(setFullYearPlus(ParseLocalDate(value, tz), tz, 2))]

\* UPDATE rtw_records SET (updates) WHERE id = id
UpdateRow(recs, id, updates) ==
  IF recs[id] = <<>> THEN recs
  ELSE [recs EXCEPT ![id] =
          <<[f \in DOMAIN recs[id][1] |->
               IF f \in DOMAIN updates THEN updates[f] ELSE recs[id][1][f]]>>]

\* the record calculateStatus is given, dates as day numbers
AsDay(date) ==
  IF date = NullDate THEN NullDate
  ELSE <<MakeDay(date[1], date[2], date[3])>>

StatusOf(data, now, tz) ==
  calculateStatus([onboarding_id |-> FALSE, check_date |-> <<0>>,
                   deletion_due_date |-> AsDay(data.deletion_due_date),
                   expiry_date |-> NullDate, follow_up_date |-> NullDate],
                  now, tz)

NoEmployment == [i \in Staff |-> <<>>]

\* form submit of a new check: createRecord(data); data has no
\* employment_end_date and no deletion_due_date
form_create(id) ==
  /\ employment[id] = <<>>
  /\ employment' =
       [employment EXCEPT ![id] =
          <<[employment_end_date |-> NullDate, deletion_due_date |-> NullDate,
             status |-> StatusOf([deletion_due_date |-> NullDate],
                                 classifier.now, classifier.tz),
             gdrive_file_id |-> FALSE]>>]
  /\ UNCHANGED <<retentionVars, sessionVars, classifier, notifyVars>>

\* form submit of an edit: updateRecord(recordId, data), the status being
\* calculated from the form's data
form_edit(id) ==
  /\ employment[id] # <<>>
  /\ employment' =
       UpdateRow(employment, id,
                 [status |-> StatusOf([deletion_due_date |-> NullDate],
                                      classifier.now, classifier.tz)])
  /\ UNCHANGED <<retentionVars, sessionVars, classifier, notifyVars>>

\* the 'Save' button of the employment end date
save_end_date(id) ==
  /\ employment[id] # <<>>
  /\ \E value \in EndDates \cup {NullDate} :
       employment' = UpdateRow(employment, id,
                               SaveEndDateUpdates(value, classifier.tz))
  /\ UNCHANGED <<retentionVars, sessionVars, classifier, notifyVars>>

\* the 'Clear' button, shown when an end date is set
clear_end_date(id) ==
  /\ employment[id] # <<>>
  /\ employment[id][1].employment_end_date # NullDate
  /\ employment' = UpdateRow(employment, id,
                             [employment_end_date |-> NullDate,
                              deletion_due_date |-> NullDate])
  /\ UNCHANGED <<retentionVars, sessionVars, classifier, notifyVars>>

\* the Drive listeners save the Drive ids back to the record
drive_link_update(id) ==
  /\ employment[id] # <<>>
  /\ employment' = UpdateRow(employment, id, [gdrive_file_id |-> TRUE])
  /\ UNCHANGED <<retentionVars, sessionVars, classifier, notifyVars>>

\* refreshStatuses(records) over the rows just fetched
refreshStatuses ==
  /\ employment' =
       [i \in Staff |->
          IF employment[i] = <<>> THEN <<>>
          ELSE UpdateRow(employment, i,
                         [status |-> StatusOf(employment[i][1],
                                              classifier.now,
                                              classifier.tz)])[i]]
  /\ employment' # employment
  /\ UNCHANGED <<retentionVars, sessionVars, classifier, notifyVars>>

(* ----------------------- notification generator ------------------------ *)

\* the five FOR loops of generate_rtw_notifications, in order
Categories == 1..5
Runners == {1, 2}

\* the title prefix of a category; no prefix is a prefix of another one
TitlePrefix(c) ==
  CASE c = 1 -> "Pending Deletion"
    [] c = 2 -> "Expired"
    [] c = 3 -> "Overdue"
    [] c = 4 -> "Follow-up Due"
    [] c = 5 -> "Expiring Soon"

\* a generator that inserts every notification as urgent
Severity_allUrgent(c) == "urgent"

\* the severity a category's INSERT writes
Severity(c) ==
  CASE c = 1 -> "urgent"
    [] c = 2 -> "urgent"
    [] c = 3 -> "warning"
    [] c = 4 -> "info"
    [] c = 5 -> "warning"

\* a warning window of 30 days
warning_date_30days(td) == td + WarningDays + 2

\* warning_date DATE := CURRENT_DATE + INTERVAL '28 days'
warning_date(td) == td + WarningDays

\* the WHERE clauses with the guard of loop 5 on the follow-up date left out
Trigger_noFollowUpGuard(c, r, td) ==
  LET notPending == IF r.deletion_due_date = NullDate THEN TRUE
                    ELSE r.deletion_due_date[1] > td
      notExpired == IF r.expiry_date = NullDate THEN TRUE
                    ELSE r.expiry_date[1] >= td
  IN CASE c = 1 -> r.deletion_due_date # NullDate
                     /\ r.deletion_due_date[1] <= td
       [] c = 2 -> /\ r.expiry_date # NullDate
                   /\ r.expiry_date[1] < td
                   /\ notPending
       [] c = 3 -> /\ r.follow_up_date # NullDate
                   /\ r.follow_up_date[1] < td
                   /\ notExpired
                   /\ notPending
       [] c = 4 -> /\ r.follow_up_date # NullDate
                   /\ r.follow_up_date[1] >= td
                   /\ r.follow_up_date[1] <= warning_date(td)
                   /\ notExpired
                   /\ notPending
       [] c = 5 -> /\ r.expiry_date # NullDate
                   /\ r.expiry_date[1] >= td
                   /\ r.expiry_date[1] <= warning_date(td)
                   /\ notPending

\* the WHERE clause of the SELECT of loop c, for row r on CURRENT_DATE td
Trigger(c, r, td) ==
  LET notPending == IF r.deletion_due_date = NullDate THEN TRUE
                    ELSE r.deletion_due_date[1] > td
      notExpired == IF r.expiry_date = NullDate THEN TRUE
                    ELSE r.expiry_date[1] >= td
  IN CASE c = 1 -> r.deletion_due_date # NullDate
                     /\ r.deletion_due_date[1] <= td
       [] c = 2 -> /\ r.expiry_date # NullDate
                   /\ r.expiry_date[1] < td
                   /\ notPending
       [] c = 3 -> /\ r.follow_up_date # NullDate
                   /\ r.follow_up_date[1] < td
                   /\ notExpired
                   /\ notPending
       [] c = 4 -> /\ r.follow_up_date # NullDate
                   /\ r.follow_up_date[1] >= td
                   /\ r.follow_up_date[1] <= warning_date(td)
                   /\ notExpired
                   /\ notPending
       [] c = 5 -> /\ r.expiry_date # NullDate
                   /\ r.expiry_date[1] >= td
                   /\ r.expiry_date[1] <= warning_date(td)
                   /\ ( IF r.follow_up_date = NullDate THEN TRUE
                        ELSE r.follow_up_date[1] > warning_date(td) )
                   /\ notPending

\* the (category, record) pairs a run visits, loop by loop
AllPairs ==
  [k \in 1..(5 * NumRecords) |->
     <<((k - 1) \div NumRecords) + 1, ((k - 1) % NumRecords) + 1>>]

Worklist(recs, td) ==
  SelectSeq(AllPairs, LAMBDA pr : Trigger(pr[1], recs[pr[2]], td))

\* the n-th row of the notifications table for record id with this title
Notification(id, title, severity, n) ==
  [record_id |-> id, source_app |-> "rtw-checker", title |-> title,
   severity |-> severity, dismissed |-> FALSE, n |-> n]

\* title LIKE '<prefix>%'
Like(title, prefix) == title[1] = prefix

\* the EXISTS query looking for dismissed rows
NotifExists_dismissed(rows, id, c) ==
  \E n \in rows :
    /\ n.record_id = id
    /\ n.source_app = "rtw-checker"
    /\ Like(n.title, TitlePrefix(c))
    /\ n.dismissed

\* SELECT EXISTS (... WHERE record_id = rec.id AND source_app = 'rtw-checker'
\* AND title LIKE '<prefix>%' AND dismissed_at IS NULL)
NotifExists(rows, id, c) ==
  \E n \in rows :
    /\ n.record_id = id
    /\ n.source_app = "rtw-checker"
    /\ Like(n.title, TitlePrefix(c))
    /\ ~n.dismissed

\* INSERT INTO notifications: the row gets the next number for its title
InsertNotification(rows, id, title, severity) ==
  rows \cup
    {Notification(id, title, severity,
       1 + Cardinality({n \in rows : n.record_id = id /\ n.title = title}))}

RECURSIVE InsertAll(_, _)
InsertAll(rows, pending) ==
  IF pending = {} THEN rows
  ELSE LET pr == CHOOSE x \in pending : TRUE
       IN InsertAll(InsertNotification(rows, pr[2],
                                       <<TitlePrefix(pr[1]), pr[2]>>,
                                       Severity(pr[1])),
                    pending \ {pr})

\* the rows a transaction sees: the committed ones and its own inserts
Visible(rows, pending) == InsertAll(rows, pending)

Undismissed(rows, id) == {n \in rows : n.record_id = id /\ ~n.dismissed}

IdleRun ==
  [pc |-> "idle", today |-> FirstDay, work |-> <<>>, pending |-> {},
   covered |-> {}, second |-> FALSE, undisturbed |-> FALSE, failedAt |-> <<>>,
   othersStored |-> TRUE]

NoGen == [run |-> [g \in Runners |-> IdleRun], runs |-> 0, faults |-> 0,
          calls |-> 0, settled |-> FALSE]

NoWatched ==
  [i \in Ids |-> [deletion_due_date |-> NullDate, expiry_date |-> NullDate,
                   follow_up_date |-> NullDate]]

\* the uncommitted inserts of the running transactions
PendingRows ==
  UNION {IF gen.run[g].pc = "run" THEN gen.run[g].pending ELSE {} :
           g \in Runners}

\* SELECT public.generate_rtw_notifications(): the transaction starts and
\* today is set to CURRENT_DATE
generate_begin(g) ==
  /\ gen.run[g].pc # "run"
  /\ \A h \in Runners : h < g => gen.run[h].pc = "run"
  /\ gen.runs < MaxRuns
  /\ gen' = [gen EXCEPT
               !.runs = @ + 1,
               !.run[g] = [IdleRun EXCEPT
                             !.pc = "run",
                             !.today = today,
                             !.work = Worklist(watched, today),
                             !.second = gen.settled,
                             !.undisturbed = TRUE]]
  /\ UNCHANGED <<retentionVars, sessionVars, classifier, employment, watched,
                 notifications>>

\* one iteration of a FOR loop: the EXISTS query and the INSERT, or a
\* failure of either, which ends the function and its transaction
generate_step(g) ==
  /\ gen.run[g].pc = "run"
  /\ gen.run[g].work # <<>>
  /\ LET r    == gen.run[g]
         c    == r.work[1][1]
         id   == r.work[1][2]
         seen == NotifExists(Visible(notifications, r.pending), id, c)
         covered == IF Undismissed(Visible(notifications, r.pending), id)
                         = {}
                    THEN r.covered ELSE r.covered \cup {id}
     IN \/ /\ seen \/ Cardinality(notifications) + Cardinality(PendingRows)
                         < MaxNotifications
           /\ gen' = [gen EXCEPT
                        !.run[g].work = Tail(@),
                        !.run[g].covered = covered,
                        !.run[g].pending =
                           IF seen THEN @ ELSE @ \cup {<<c, id>>}]
        \/ /\ gen.faults < MaxFaults
           /\ gen' = [gen EXCEPT
                        !.faults = @ + 1,
                        !.run[g].pc = "failed",
                        !.run[g].failedAt = <<c, id>>,
                        !.run[g].pending = {},
                        !.run[g].othersStored =
                           \A k \in DOMAIN Worklist(watched, r.today) :
                             LET pr == Worklist(watched, r.today)[k]
                             IN pr # <<c, id>> =>
                                  NotifExists(notifications, pr[2], pr[1])]
  /\ UNCHANGED <<retentionVars, sessionVars, classifier, employment, watched,
                 notifications>>

\* the function returns and its transaction commits
generate_commit(g) ==
  /\ gen.run[g].pc = "run"
  /\ gen.run[g].work = <<>>
  /\ notifications' = InsertAll(notifications, gen.run[g].pending)
  /\ gen' = [gen EXCEPT
               !.run[g].pc = "done",
               !.settled = gen.run[g].undisturbed]
  /\ UNCHANGED <<retentionVars, sessionVars, classifier, employment, watched>>

generate_rtw_notifications(g) ==
  \/ generate_begin(g)
  \/ generate_step(g)
  \/ generate_commit(g)

\* what a dismissal or a change of date does to the histories
Unsettled ==
  [gen EXCEPT
     !.settled = FALSE,
     !.run = [g \in Runners |->
                IF gen.run[g].pc = "run"
                THEN [gen.run[g] EXCEPT !.second = FALSE,
                                        !.undisturbed = FALSE]
                ELSE gen.run[g]]]

\* createNotification({title, message, recordId}) with the title of a
\* category the record is in on one of the days
createNotification(id, c) ==
  /\ gen.calls < MaxClientCalls
  /\ \E d \in FirstDay..MaxDay : Trigger(c, watched[id], d)
  /\ Cardinality(notifications) + Cardinality(PendingRows)
       < MaxNotifications
  /\ notifications' = InsertNotification(notifications, id,
                                         <<TitlePrefix(c), id>>, "info")
  /\ gen' = [gen EXCEPT !.calls = @ + 1]
  /\ UNCHANGED <<retentionVars, sessionVars, classifier, employment, watched>>

\* dismissNotification(notificationId)
dismissNotification(n) ==
  /\ gen.calls < MaxClientCalls
  /\ n \in notifications
  /\ ~n.dismissed
  /\ notifications' = (notifications \ {n})
                         \cup {[n EXCEPT !.dismissed = TRUE]}
  /\ gen' = [Unsettled EXCEPT !.calls = @ + 1]
  /\ UNCHANGED <<retentionVars, sessionVars, classifier, employment, watched>>

\* CURRENT_DATE moves to the next day
notify_day ==
  /\ today < MaxDay
  /\ today' = today + 1
  /\ gen' = Unsettled
  /\ UNCHANGED <<rtw_records, storage, deleted_records, audit_log,
                 cachedProfile, sweep, page, detail, removal, prior, faults,
                 sweeps, scrubbed, classifier, employment, watched,
                 notifications, sessionVars>>

(* --------------------------- status refresh ---------------------------- *)

\* the dashboard: allRecords as fetched (the records held in memory), the
\* updates refreshStatuses handed to batchUpdateStatuses and the one it is
\* at; histories: the updates issued by this call, the ids whose update
\* the store refused, and the store calls that failed so far
NoDashboard ==
  [pc |-> "idle", allRecords |-> [i \in Staff |-> <<>>], updates |-> <<>>,
   k |-> 0, renders |-> 0, issued |-> {}, refused |-> {}, faults |-> 0]

\* the listed records whose calculated status is not the one they carry
StaleIds(recs, now, tz) ==
  {i \in Staff : recs[i] # <<>>
                   /\ StatusOf(recs[i][1], now, tz) # recs[i][1].status}

\* lines 57-63: record.status = newStatus in memory, for the stale records
Recalculated(recs, now, tz) ==
  [i \in Staff |->
     IF i \in StaleIds(recs, now, tz)
     THEN UpdateRow(recs, i, [status |-> StatusOf(recs[i][1], now, tz)])[i]
     ELSE recs[i]]

\* lines 56-63: updates, one { id, status } per stale record, in list order
RECURSIVE UpdatesFor(_, _, _, _)
UpdatesFor(recs, now, tz, n) ==
  IF n > NumStaff THEN <<>>
  ELSE (IF n \in StaleIds(recs, now, tz)
        THEN <<[id |-> n, status |-> StatusOf(recs[n][1], now, tz)]>>
        ELSE <<>>) \o UpdatesFor(recs, now, tz, n + 1)

\* dashboard render: allRecords = await fetchAllRecords()
dashboard_fetch ==
  /\ dashboard.pc \in {"idle", "done"}
  /\ dashboard.renders < MaxRenders
  /\ dashboard' = [dashboard EXCEPT !.pc = "fetched",
                                    !.renders = @ + 1,
                                    !.allRecords = employment,
                                    !.updates = <<>>, !.k = 0,
                                    !.issued = {}, !.refused = {}]
  /\ UNCHANGED <<retentionVars, lifecycleVars, auth>>

\* refreshStatuses(allRecords) up to its await: the loop of lines 57-63,
\* and the return when there is nothing to update
refreshStatuses_calculate ==
  /\ dashboard.pc = "fetched"
  /\ LET updates == UpdatesFor(dashboard.allRecords, classifier.now,
                               classifier.tz, 1)
     IN dashboard' =
          [dashboard EXCEPT
             !.allRecords = Recalculated(dashboard.allRecords, classifier.now,
                                         classifier.tz),
             !.updates = updates,
             !.k = IF updates = <<>> THEN 0 ELSE 1,
             !.pc = IF updates = <<>> THEN "done" ELSE "batch"]
  /\ UNCHANGED <<retentionVars, lifecycleVars, auth>>

\* batchUpdateStatuses never looks at the result of an update: the loop
\* goes on to the next one and the function returns normally
BatchNext(d, failed) ==
  IF d.k + 1 > Len(d.updates) THEN "done" ELSE "batch"

\* one iteration of batchUpdateStatuses: update({ status }).eq('id', id)
batchUpdateStatuses ==
  /\ dashboard.pc = "batch"
  /\ \E failed \in BOOLEAN :
       LET u == dashboard.updates[dashboard.k]
       IN /\ failed => dashboard.faults < MaxFaults
          /\ employment' =
               IF failed THEN employment
               ELSE UpdateRow(employment, u.id, [status |-> u.status])
          /\ dashboard' =
               [dashboard EXCEPT
                  !.pc = BatchNext(dashboard, failed),
                  !.k = @ + 1,
                  !.issued = @ \cup {u.id},
                  !.refused = IF failed THEN @ \cup {u.id} ELSE @,
                  !.faults = IF failed THEN @ + 1 ELSE @]
  /\ UNCHANGED <<retentionVars, classifier, notifyVars, auth>>

(* ------------------------------ session -------------------------------- *)

Users == 1..NumUsers
Callers == 1..NumCallers
NoUser == 0

\* a getUserProfile call: where it is, the user getUser() gave it, whose
\* profile it returned (NoUser: null), and the session's user when it was
\* called (asked) and when it returned (session)
IdleCall == [pc |-> "idle", user |-> NoUser, returned |-> NoUser,
             asked |-> NoUser, session |-> NoUser]

\* nobody is signed in, the cache is empty (cachedProfile = null; else the
\* user whose profiles row it holds), no call is under way, signOut is not
\* under way, no auth-state-change callback is waiting to run
NoAuth ==
  [session |-> NoUser, cachedProfile |-> NoUser,
   calls |-> [c \in Callers |-> IdleCall], ops |-> 0,
   signingOut |-> FALSE, callback |-> FALSE]

\* signIn(email, password): the session is the user's, cachedProfile = null;
\* the client library queues the SIGNED_IN callback
auth_signIn(u) ==
  /\ auth.ops < MaxAuthOps
  /\ ~auth.signingOut
  /\ auth.session # u
  /\ auth' = [auth EXCEPT !.session = u, !.cachedProfile = NoUser,
                          !.ops = @ + 1, !.callback = TRUE]
  /\ UNCHANGED <<retentionVars, lifecycleVars, dashboard>>

\* signOut() up to its call of sb.auth.signOut(): cachedProfile = null
auth_signOut_clear ==
  /\ auth.ops < MaxAuthOps
  /\ ~auth.signingOut
  /\ auth.session # NoUser
  /\ auth' = [auth EXCEPT !.cachedProfile = NoUser, !.ops = @ + 1,
                          !.signingOut = TRUE]
  /\ UNCHANGED <<retentionVars, lifecycleVars, dashboard>>

\* sb.auth.signOut() ends the session and queues the SIGNED_OUT callback
auth_signOut_end ==
  /\ auth.signingOut
  /\ auth' = [auth EXCEPT !.session = NoUser, !.signingOut = FALSE,
                          !.callback = TRUE]
  /\ UNCHANGED <<retentionVars, lifecycleVars, dashboard>>

\* the auth-state-change callbacks: cachedProfile = null on SIGNED_OUT and
\* clearProfileCache() on every event
auth_state_change ==
  /\ auth.callback
  /\ auth' = [auth EXCEPT !.cachedProfile = NoUser, !.callback = FALSE]
  /\ UNCHANGED <<retentionVars, lifecycleVars, dashboard>>

\* getUserProfile(): line 57 returns the cached profile, else getUser() is
\* awaited
profile_call(c) ==
  /\ auth.calls[c].pc = "idle"
  /\ auth' =
       [auth EXCEPT !.calls[c] =
          IF auth.cachedProfile # NoUser
          THEN [IdleCall EXCEPT !.pc = "returned",
                                !.returned = auth.cachedProfile,
                                !.asked = auth.session,
                                !.session = auth.session]
          ELSE [IdleCall EXCEPT !.pc = "getUser", !.asked = auth.session]]
  /\ UNCHANGED <<retentionVars, lifecycleVars, dashboard>>

\* lines 59-69: getUser() resolves; null returns null, else the select of
\* the user's profiles row is sent
profile_getUser(c) ==
  /\ auth.calls[c].pc = "getUser"
  /\ auth' =
       [auth EXCEPT !.calls[c] =
          IF auth.session = NoUser
          THEN [@ EXCEPT !.pc = "returned", !.returned = NoUser,
                         !.session = NoUser]
          ELSE [@ EXCEPT !.pc = "select", !.user = auth.session]]
  /\ UNCHANGED <<retentionVars, lifecycleVars, dashboard>>

\* lines 69-71: cachedProfile = data, whoever is signed in by now
CacheAfterSelect(cached, user, session) == user

\* the select resolves: its error is thrown, else the row is cached and
\* returned
profile_select(c) ==
  /\ auth.calls[c].pc = "select"
  /\ \E failed \in BOOLEAN :
       auth' =
         IF failed
         THEN [auth EXCEPT !.calls[c] = IdleCall]
         ELSE [auth EXCEPT
                 !.cachedProfile =
                    CacheAfterSelect(auth.cachedProfile, auth.calls[c].user,
                                     auth.session),
                 !.calls[c] = [@ EXCEPT !.pc = "returned",
                                        !.returned = auth.calls[c].user,
                                        !.session = auth.session]]
  /\ UNCHANGED <<retentionVars, lifecycleVars, dashboard>>

\* the caller has its result
profile_return(c) ==
  /\ auth.calls[c].pc = "returned"
  /\ auth' = [auth EXCEPT !.calls[c] = IdleCall]
  /\ UNCHANGED <<retentionVars, lifecycleVars, dashboard>>

getUserProfile(c) ==
  \/ profile_call(c)
  \/ profile_getUser(c)
  \/ profile_select(c)
  \/ profile_return(c)

(* --------------------------- specification ----------------------------- *)

\* the deletion due dates the initial rows can carry
DueChoices == {NullDate, <<FirstDay>>, <<FirstDay + 1>>}

\* the audit_log the row triggers have written for the initial rows: the
\* creation, and the update that saved the employment end date
RECURSIVE InitialAudit(_, _)
InitialAudit(recs, n) ==
  IF n = 0 THEN <<>>
  ELSE LET log     == InitialAudit(recs, n - 1)
           created == audit_rtw_changes(log, "INSERT", n, Row(NullDate),
                                        Row(NullDate))
       IN IF RowOf(recs, n).deletion_due_date = NullDate THEN created
          ELSE audit_rtw_changes(created, "UPDATE", n, Row(NullDate),
                                 RowOf(recs, n))

NoScrub == [n |-> 0, target |-> NoRecordId, before |-> <<>>]

\* the initial rows are interchangeable, so only one numbering of every
\* combination is started from: the pairs (due date, has scans) do not
\* decrease with the id
InitRank(recs, store, i) ==
  <<Len(RowOf(recs, i).deletion_due_date),
    IF RowOf(recs, i).deletion_due_date = NullDate THEN FirstDay
    ELSE RowOf(recs, i).deletion_due_date[1],
    IF i \in store THEN 1 ELSE 0>>

RankLeq(a, b) ==
  \/ a[1] < b[1]
  \/ a[1] = b[1] /\ a[2] < b[2]
  \/ a[1] = b[1] /\ a[2] = b[2] /\ a[3] <= b[3]

Init ==
  /\ today = FirstDay
  /\ rtw_records \in [Ids -> {<<Row(d)>> : d \in DueChoices}]
  /\ storage \in SUBSET Ids
  /\ \A i, j \in Ids :
       i < j => RankLeq(InitRank(rtw_records, storage, i),
                        InitRank(rtw_records, storage, j))
  /\ deleted_records = {}
  /\ audit_log = InitialAudit(rtw_records, NumRecords)
  /\ cachedProfile = FALSE
  /\ sweep = [p \in Clients |-> IdleSweep]
  /\ page = ClosedPage
  /\ detail = NoDetail
  /\ removal = [i \in Ids |-> NotRemoved]
  /\ prior = NoPrior
  /\ faults = 0
  /\ sweeps = 0
  /\ scrubbed = NoScrub
  /\ dashboard = NoDashboard
  /\ auth = NoAuth
  /\ classifier = NoClassifier
  /\ employment = NoEmployment
  /\ watched = NoWatched
  /\ notifications = {}
  /\ gen = NoGen

Next ==
  /\ \/ \E p \in Clients : autoDeleteExpiredRecords(p)
     \/ RetentionPage
     \/ RecordDetail
     \/ auto_delete_expired_records
     \/ AdvanceDay
  /\ UNCHANGED <<lifecycleVars, sessionVars>>

Spec == Init /\ [][Next]_vars

(* ----------------- the audit log and its scrubber ---------------------- *)

\* scrubbed: how many times in a row the scrubber has just been called on
\* the same target (0, 1, or 2 and more), and the audit_log before the last
\* of these calls
Created(log, id) == \E n \in DOMAIN log : log[n].record_id = id

sweepVars == <<today, storage, deleted_records, cachedProfile, sweep, page,
               detail, removal, prior, faults, sweeps>>

\* createRecord(record): the insert and its row trigger
createRecord(id) ==
  /\ Len(audit_log) < MaxAuditRows
  /\ ~Created(audit_log, id)
  /\ rtw_records' = [rtw_records EXCEPT ![id] = <<Row(NullDate)>>]
  /\ audit_log' = audit_rtw_changes(audit_log, "INSERT", id, Row(NullDate),
                                    Row(NullDate))
  /\ scrubbed' = NoScrub
  /\ UNCHANGED sweepVars

\* updateRecord(id, updates) with updates that set or clear the deletion
\* due date, and its row trigger
updateRecord(id, due) ==
  /\ Len(audit_log) < MaxAuditRows
  /\ HasRow(rtw_records, id)
  /\ RowOf(rtw_records, id).deletion_due_date # due
  /\ rtw_records' = [rtw_records EXCEPT ![id] = <<Row(due)>>]
  /\ audit_log' = audit_rtw_changes(audit_log, "UPDATE", id,
                                    RowOf(rtw_records, id), Row(due))
  /\ scrubbed' = NoScrub
  /\ UNCHANGED sweepVars

\* deleteRecord(id): the delete and its row trigger
deleteRecord(id) ==
  /\ Len(audit_log) < MaxAuditRows
  /\ HasRow(rtw_records, id)
  /\ rtw_records' = DeleteRow(rtw_records, id)
  /\ audit_log' = DeleteAudit(rtw_records, audit_log, id)
  /\ scrubbed' = NoScrub
  /\ UNCHANGED sweepVars

\* the 'generate-pdf' listener logs the export with the person's name
export_pdf(id) ==
  /\ Len(audit_log) < MaxAuditRows
  /\ HasRow(rtw_records, id)
  /\ audit_log' = logAuditEvent(audit_log, "export_pdf", id,
                                JsonObj({<<"person_name", <<id>>>>}))
  /\ scrubbed' = NoScrub
  /\ UNCHANGED <<rtw_records, sweepVars>>

\* signIn(email, password) logs the login: a row with no record id
signIn ==
  /\ Len(audit_log) < MaxAuditRows
  /\ cachedProfile' = FALSE
  /\ audit_log' = logAuditEvent(audit_log, "login", NoRecordId, JsonNull)
  /\ scrubbed' = NoScrub
  /\ UNCHANGED <<today, rtw_records, storage, deleted_records, sweep, page,
                 detail, removal, prior, faults, sweeps>>

\* SELECT public.scrub_audit_personal_data(target)
scrub_call(target) ==
  /\ audit_log' = scrub_audit_personal_data(audit_log, target)
  /\ scrubbed' = [n |-> IF scrubbed.n >= 1 /\ scrubbed.target = target
                        THEN 2 ELSE 1,
                  target |-> target,
                  before |-> audit_log]
  /\ UNCHANGED <<rtw_records, sweepVars>>

InitScrub ==
  /\ today = FirstDay
  /\ rtw_records = [i \in Ids |-> NoRow]
  /\ storage = {}
  /\ deleted_records = {}
  /\ audit_log = <<>>
  /\ cachedProfile = FALSE
  /\ sweep = [p \in Clients |-> IdleSweep]
  /\ page = ClosedPage
  /\ detail = NoDetail
  /\ removal = [i \in Ids |-> NotRemoved]
  /\ prior = NoPrior
  /\ faults = 0
  /\ sweeps = 0
  /\ scrubbed = NoScrub
  /\ dashboard = NoDashboard
  /\ auth = NoAuth
  /\ classifier = NoClassifier
  /\ employment = NoEmployment
  /\ watched = NoWatched
  /\ notifications = {}
  /\ gen = NoGen

NextScrub ==
  /\ \/ \E id \in Ids : createRecord(id)
     \/ \E id \in Ids : \E due \in DueChoices : updateRecord(id, due)
     \/ \E id \in Ids : deleteRecord(id)
     \/ \E id \in Ids : export_pdf(id)
     \/ signIn
     \/ \E target \in Ids : scrub_call(target)
  /\ UNCHANGED <<lifecycleVars, sessionVars>>

SpecScrub == InitScrub /\ [][NextScrub]_vars

(* ------------------------- claims: the sweep --------------------------- *)

Count(seq, x) == Cardinality({k \in DOMAIN seq : seq[k] = x})
ErrCount(errs, name) == Cardinality({k \in DOMAIN errs : errs[k].name = name})
CandidateIds(sw) == {sw.records[k].id : k \in DOMAIN sw.records}

\* the sweep of client p has returned after fetching candidates and
\* resolving the acting user
Returned(p) ==
  /\ sweep[p].pc = "done"
  /\ Len(sweep[p].records) > 0
  /\ sweep[p].principal = "user"

StepsSucceeded(sw, id) ==
  \A step \in {"log", "scans", "delete"} : <<id, step>> \notin sw.stepFailed

\* C1: when a client sweep that fetched candidates and resolved the user
\* returns, every candidate is reported exactly once, in deleted iff its
\* log, scan-purge and row-delete steps all succeeded and else in errors,
\* so that |deleted| + |errors| is the number of candidates
C1_EachCandidateReportedByOutcome ==
  \A p \in Clients : Returned(p) =>
    /\ \A id \in CandidateIds(sweep[p]) :
         /\ Count(sweep[p].deleted, id) + ErrCount(sweep[p].errors, id) = 1
         /\ Count(sweep[p].deleted, id) = 1 <=> StepsSucceeded(sweep[p], id)
    /\ Len(sweep[p].deleted) + Len(sweep[p].errors) = Len(sweep[p].records)

\* the part of C1 that does not depend on how a failed scan purge is
\* reported: every candidate is reported exactly once
SweepReportsEachCandidateOnce ==
  \A p \in Clients : Returned(p) =>
    /\ \A id \in CandidateIds(sweep[p]) :
         Count(sweep[p].deleted, id) + ErrCount(sweep[p].errors, id) = 1
    /\ Len(sweep[p].deleted) + Len(sweep[p].errors) = Len(sweep[p].records)

\* C2: a candidate whose scan deletion failed (the list or the remove call
\* of the store failed) has exactly one errors entry and is not in deleted,
\* and every candidate none of whose steps failed is in deleted
C2_ScanFailureIsReported ==
  \A p \in Clients : Returned(p) =>
    \A id \in CandidateIds(sweep[p]) :
      /\ <<id, "scans">> \in sweep[p].stepFailed =>
            /\ ErrCount(sweep[p].errors, id) = 1
            /\ Count(sweep[p].deleted, id) = 0
      /\ StepsSucceeded(sweep[p], id) => Count(sweep[p].deleted, id) = 1

\* C3: whenever the client sweep, the server sweep or the retention page's
\* 'Delete now' purged the scans of a record or removed its row, a ledger
\* entry for that record id existed already
C3_LedgerEntryBeforeDestruction ==
  \A i \in Ids :
    /\ removal[i].by \in RetentionPaths => removal[i].logged
    /\ removal[i].purgeLogged

C3_Witness ==
  \E i, j \in Ids :
    /\ removal[i].by = "sweep" /\ i \notin storage
    /\ removal[j].by = "page" /\ j \notin storage

\* C4: a record whose row no longer exists has a ledger entry, whichever
\* path destroyed it (a ledger entry beside a row that still exists is the
\* transient window the claim excepts)
C4_GoneRecordsAreInLedger ==
  \A i \in Ids : ~HasRow(rtw_records, i) => LedgerFor(deleted_records, i) # {}

\* C5: the ledger never holds two entries for one original record id, and
\* holds one for every record a sweep has deleted
C5_OneLedgerEntryPerRecord ==
  \A i \in Ids :
    /\ Cardinality(LedgerFor(deleted_records, i)) <= 1
    /\ removal[i].by \in {"sweep", "server"} =>
          Cardinality(LedgerFor(deleted_records, i)) = 1

NothingDone(sw) == sw.deleted = <<>> /\ sw.errors = <<>> /\ ~sw.wrote

\* C6: a sweep invoked after another sweep has returned, with no write to
\* the store by anyone else in between, deletes no record and writes no
\* ledger entry (the claim adds that its result is empty)
C6_SecondSweepEmpty ==
  \A p \in Clients :
    (sweep[p].pc = "done" /\ sweep[p].succ)
      => sweep[p].deleted = <<>> /\ ~sweep[p].wrote

\* C6 as amended: the same, when the first sweep returned no errors, the
\* second sweep's candidate query succeeds, and from the first sweep's
\* candidate query on nobody else wrote and the date did not change
C6_SecondSweepEmptyAfterCleanSweep ==
  \A p \in Clients :
    (sweep[p].pc = "done" /\ sweep[p].succOk) => NothingDone(sweep[p])

C6_Witness ==
  \E p \in Clients : \E i \in Ids :
    /\ sweep[p].pc = "done" /\ sweep[p].succOk
    /\ removal[i].by = "sweep"

\* C7: a sweep that fetched candidates and could not resolve the acting
\* user returns deleted = [] and exactly one error, having written no
\* ledger entry, removed no scan and deleted no row
C7_UnresolvedUserAbortsSweep ==
  \A p \in Clients :
    (sweep[p].principal \in {"no user", "no profile"})
      => /\ sweep[p].pc = "done"
         /\ Len(sweep[p].records) > 0
         /\ sweep[p].deleted = <<>>
         /\ Len(sweep[p].errors) = 1
         /\ sweep[p].errors[1].msg = "Could not identify current user"
         /\ ~sweep[p].wrote

C7_Witness ==
  \E p, q \in Clients :
    /\ sweep[p].pc = "done" /\ sweep[p].principal = "no user"
    /\ sweep[q].pc = "done" /\ sweep[q].principal = "no profile"

HasSensitive(j) == ~j.null /\ \E e \in j.kv : e[1] \in SensitiveSet

Scrubbed(log, id) ==
  \A n \in DOMAIN log : log[n].record_id = id =>
    ~HasSensitive(log[n].old_values) /\ ~HasSensitive(log[n].new_values)

\* C8: once a client sweep has returned a record's name in deleted, or the
\* server sweep has removed the record, no audit_log row of that record id
\* holds a sensitive key in old_values or new_values
C8_SweptRecordsAreScrubbed ==
  /\ \A p \in Clients : sweep[p].pc = "done" =>
       \A k \in DOMAIN sweep[p].deleted : Scrubbed(audit_log, sweep[p].deleted[k])
  /\ \A i \in Ids : removal[i].by = "server" => Scrubbed(audit_log, i)

(* ------------------------ claims: the scrubber ------------------------- *)

\* the seven keys the scrubber is to remove
SevenKeys ==
  {"person_name", "date_of_birth", "share_code", "verification_answers",
   "additional_notes", "document_scan_path", "document_scan_filename"}

WithoutSeven(j) ==
  [null |-> j.null, kv |-> {e \in j.kv : e[1] \notin SevenKeys}]

\* C9: a call of scrub_audit_personal_data(id) leaves the number and order
\* of audit_log rows as they were, leaves the rows of other record ids (and
\* of no record id) untouched, and in the rows of id removes exactly the
\* seven sensitive keys from old_values and new_values, an absent snapshot
\* staying absent
C9_ScrubRemovesOnlySensitiveKeys ==
  scrubbed.n >= 1 =>
    /\ Len(audit_log) = Len(scrubbed.before)
    /\ \A n \in DOMAIN audit_log :
         IF scrubbed.before[n].record_id = scrubbed.target
         THEN audit_log[n] =
                [scrubbed.before[n] EXCEPT !.old_values = WithoutSeven(@),
                                           !.new_values = WithoutSeven(@)]
         ELSE audit_log[n] = scrubbed.before[n]

\* a call that scrubbed a row with sensitive keys and an absent snapshot,
\* beside a row of another record id that still has them
C9_Witness ==
  /\ scrubbed.n >= 1
  /\ \E n \in DOMAIN audit_log :
       /\ scrubbed.before[n].record_id = scrubbed.target
       /\ scrubbed.before[n].old_values.null
       /\ HasSensitive(scrubbed.before[n].new_values)
       /\ audit_log[n] # scrubbed.before[n]
  /\ \E n \in DOMAIN audit_log :
       /\ audit_log[n].record_id \notin {scrubbed.target, NoRecordId}
       /\ HasSensitive(audit_log[n].new_values)

\* C10: a second call of the scrubber on the same record id, directly after
\* the first, leaves the audit_log as the first call left it
C10_SecondScrubChangesNothing ==
  scrubbed.n = 2 => audit_log = scrubbed.before

\* the second of two calls, the first of which had rows to scrub
C10_Witness ==
  /\ scrubbed.n = 2
  /\ \E n \in DOMAIN audit_log :
       /\ audit_log[n].record_id = scrubbed.target
       /\ audit_log[n].action \in {"create", "update"}

(* ---------------------- the classifier's development ------------------- *)

\* the state of the retention development in which nothing has happened
RetentionIdle ==
  /\ today = FirstDay
  /\ rtw_records = [i \in Ids |-> NoRow]
  /\ storage = {}
  /\ deleted_records = {}
  /\ audit_log = <<>>
  /\ cachedProfile = FALSE
  /\ sweep = [p \in Clients |-> IdleSweep]
  /\ page = ClosedPage
  /\ detail = NoDetail
  /\ removal = [i \in Ids |-> NotRemoved]
  /\ prior = NoPrior
  /\ faults = 0
  /\ sweeps = 0
  /\ scrubbed = NoScrub
  /\ dashboard = NoDashboard
  /\ auth = NoAuth

InitStatus ==
  /\ RetentionIdle
  /\ \E z \in TzOffsets :
       classifier = [NoClassifier EXCEPT !.tz = z]
  /\ employment = NoEmployment
  /\ watched = NoWatched
  /\ notifications = {}
  /\ gen = NoGen

NextStatus ==
  \/ classify_input
  \/ classify_tick
  \/ classify_call
  \/ classify_return

SpecStatus == InitStatus /\ [][NextStatus]_vars

(* ----------------------- claims: the classifier ------------------------ *)

Statuses ==
  {"pending_onboarding", "pending_deletion", "expired", "follow_up_overdue",
   "follow_up_due", "valid"}

\* the ordered rule list over calendar days: the first rule that matches
\* record r on day d
FirstMatch(r, d) ==
  LET on(f)         == f # NullDate
      before(f)     == on(f) /\ f[1] < d
      inWindow(f)   == on(f) /\ d <= f[1] /\ f[1] <= d + 28
  IN CASE r.onboarding_id /\ ~on(r.check_date) -> "pending_onboarding"
       [] on(r.deletion_due_date) /\ r.deletion_due_date[1] <= d
            -> "pending_deletion"
       [] before(r.expiry_date) -> "expired"
       [] before(r.follow_up_date) -> "follow_up_overdue"
       [] inWindow(r.follow_up_date) -> "follow_up_due"
       [] inWindow(r.expiry_date) -> "follow_up_due"
       [] OTHER -> "valid"

\* the calendar day of the classifier's browser
Today == LocalDay(classifier.now, classifier.tz)

\* C11: calculateStatus returns, for every record, clock and zone, the
\* status of the first matching rule of the ordered list evaluated on the
\* browser's calendar day, which is one of the defined statuses; an overdue
\* follow-up with a future expiry is follow_up_overdue
C11_FirstMatchingRule ==
  classifier.called =>
    /\ classifier.status \in Statuses
    /\ classifier.status = FirstMatch(classifier.record, Today)
    /\ ( /\ ~classifier.record.onboarding_id
         /\ classifier.record.deletion_due_date = NullDate
         /\ classifier.record.follow_up_date # NullDate
         /\ classifier.record.follow_up_date[1] < Today
         /\ classifier.record.expiry_date # NullDate
         /\ classifier.record.expiry_date[1] > Today
         => classifier.status = "follow_up_overdue" )

\* an overdue follow-up with an expiry inside the warning window has been
\* classified in a zone west and at an hour when UTC is a day ahead
C11_Witness ==
  /\ classifier.called
  /\ classifier.tz < 0
  /\ classifier.now \div HoursPerDay > Today
  /\ classifier.record.follow_up_date # NullDate
  /\ classifier.record.follow_up_date[1] < Today
  /\ classifier.record.expiry_date # NullDate
  /\ classifier.record.expiry_date[1] > Today
  /\ classifier.record.expiry_date[1] <= Today + 28
  /\ classifier.status = "follow_up_overdue"

\* a checked record, not from onboarding, with only the date named set
Only(field, day) ==
  [[onboarding_id |-> FALSE, check_date |-> <<BaseDay>>,
    deletion_due_date |-> NullDate, expiry_date |-> NullDate,
    follow_up_date |-> NullDate] EXCEPT ![field] = <<day>>]

\* C12: deletion_due_date = today is pending_deletion; expiry_date = today
\* and follow_up_date = today are follow_up_due; a follow-up or expiry on
\* today + 28 is follow_up_due and one on today + 29 alone is valid
C12_Boundaries ==
  classifier.called =>
    LET r == classifier.record
        st == classifier.status
    IN /\ r = Only("deletion_due_date", Today) => st = "pending_deletion"
       /\ r = Only("expiry_date", Today) => st = "follow_up_due"
       /\ r = Only("follow_up_date", Today) => st = "follow_up_due"
       /\ r = Only("expiry_date", Today + 28) => st = "follow_up_due"
       /\ r = Only("follow_up_date", Today + 28) => st = "follow_up_due"
       /\ r = Only("expiry_date", Today + 29) => st = "valid"
       /\ r = Only("follow_up_date", Today + 29) => st = "valid"
       /\ ( /\ ~r.onboarding_id
            /\ r.deletion_due_date = <<Today>> ) => st = "pending_deletion"
       /\ ( /\ ~r.onboarding_id
            /\ r.deletion_due_date = NullDate
            /\ r.expiry_date = <<Today>> ) => st # "expired"
       /\ ( /\ ~r.onboarding_id
            /\ r.deletion_due_date = NullDate
            /\ r.follow_up_date = <<Today>> )
            => st \notin {"follow_up_overdue", "valid"}

\* an expiry on day today + 29 alone has been classified valid east of UTC,
\* at an hour when the UTC day is still the day before
C12_Witness ==
  /\ classifier.called
  /\ classifier.tz > 0
  /\ classifier.now \div HoursPerDay < Today
  /\ classifier.record = Only("expiry_date", Today + 29)
  /\ classifier.status = "valid"

(* ------------------ the retention calculator's development ------------- *)

\* the browser's clock stands at noon UTC of 1 March of the fifth year
InitCalc ==
  /\ RetentionIdle
  /\ \E z \in TzOffsets :
       classifier =
         [NoClassifier EXCEPT
            !.tz = z,
            !.now = MakeDay(FirstYear + 4, 3, 1) * HoursPerDay + 12]
  /\ employment = NoEmployment
  /\ watched = NoWatched
  /\ notifications = {}
  /\ gen = NoGen

NextCalc ==
  \/ \E id \in Staff : form_create(id)
  \/ \E id \in Staff : form_edit(id)
  \/ \E id \in Staff : save_end_date(id)
  \/ \E id \in Staff : clear_end_date(id)
  \/ \E id \in Staff : drive_link_update(id)
  \/ refreshStatuses

SpecCalc == InitCalc /\ [][NextCalc]_vars

(* ------------------- claims: the retention calculator ------------------ *)

\* the calendar dates that are date e advanced by two calendar years: the
\* same month and day two years on, and for 29 February either 28 February
\* or 1 March
TwoYearsOn(e) ==
  IF e[3] <= DaysInMonth(e[1] + 2, e[2]) THEN {<<e[1] + 2, e[2], e[3]>>}
  ELSE {<<e[1] + 2, 2, 28>>, <<e[1] + 2, 3, 1>>}

\* C13: every stored employment end date has with it the deletion due date
\* that is the end date advanced by two calendar years, 29 February being
\* resolved the same way everywhere, and a null end date has a null due date
C13_DueIsEndPlusTwoYears ==
  /\ \A i \in Staff :
       employment[i] # <<>> =>
         LET r == employment[i][1]
         IN IF r.employment_end_date = NullDate
            THEN r.deletion_due_date = NullDate
            ELSE r.deletion_due_date \in TwoYearsOn(r.employment_end_date)
  /\ \A i, j \in Staff :
       ( /\ employment[i] # <<>>
         /\ employment[j] # <<>>
         /\ employment[i][1].employment_end_date
              = employment[j][1].employment_end_date )
       => employment[i][1].deletion_due_date
            = employment[j][1].deletion_due_date

\* C14: every record has a deletion due date exactly if it has an
\* employment end date
C14_DueIffEnd ==
  \A i \in Staff :
    employment[i] # <<>> =>
      ( employment[i][1].deletion_due_date # NullDate
          <=> employment[i][1].employment_end_date # NullDate )

\* a record has had the end date 29 February saved with its due date, after
\* the Drive link was written, and its status refreshed
C14_Witness ==
  \E i \in Staff :
    /\ employment[i] # <<>>
    /\ employment[i][1].employment_end_date = <<FirstYear + 2, 2, 29>>
    /\ employment[i][1].deletion_due_date # NullDate
    /\ employment[i][1].status = "pending_deletion"
    /\ employment[i][1].gdrive_file_id

(* -------------------- the generator's development ---------------------- *)

\* the dates the watched rows carry: a due date that passes on the second
\* day, an expiry and a follow-up on the first day or at the end of the
\* warning window
\* (a deletion due date only on rows without a follow-up date)
WatchedChoices ==
  {r \in [deletion_due_date : {NullDate, <<FirstDay + 1>>},
          expiry_date : {NullDate, <<FirstDay>>, <<FirstDay + WarningDays>>},
          follow_up_date : {NullDate, <<FirstDay>>,
                            <<FirstDay + WarningDays + 1>>}] :
     r.deletion_due_date # NullDate =>
       ( r.follow_up_date = NullDate
         /\ r.expiry_date # <<FirstDay + WarningDays>> )}

WatchedRank(r) ==
  <<Len(r.deletion_due_date),
    IF r.expiry_date = NullDate THEN 0 ELSE r.expiry_date[1] + 1,
    IF r.follow_up_date = NullDate THEN 0 ELSE r.follow_up_date[1] + 1>>

\* the rows are interchangeable: one numbering of every combination
InitNotify ==
  /\ RetentionIdle
  /\ classifier = NoClassifier
  /\ employment = NoEmployment
  /\ watched \in [Ids -> WatchedChoices]
  /\ \A i, j \in Ids :
       i < j => RankLeq(WatchedRank(watched[i]), WatchedRank(watched[j]))
  /\ notifications = {}
  /\ gen = NoGen

NextNotify ==
  \/ \E g \in Runners : generate_rtw_notifications(g)
  \/ \E id \in Ids : \E c \in Categories : createNotification(id, c)
  \/ \E n \in notifications : dismissNotification(n)
  \/ notify_day

SpecNotify == InitNotify /\ [][NextNotify]_vars

(* ------------------------ claims: the generator ------------------------ *)

TitlePrefixes ==
  {"Pending Deletion", "Expired", "Overdue", "Follow-up Due", "Expiring Soon"}

\* C15: there is at most one undismissed notification per record and alert
\* category
C15_OneUndismissedPerPair ==
  \A i \in Ids : \A t \in TitlePrefixes :
    Cardinality({n \in notifications :
                   n.record_id = i /\ n.title[1] = t /\ ~n.dismissed}) <= 1

\* the (category, record) pairs run g has inserted a notification for
Inserted(g) == gen.run[g].pending

\* C16: a generator run that starts after another run has committed, with
\* no change of date and no dismissal since that run began, inserts nothing
C16_SecondRunInsertsNothing ==
  \A g \in Runners :
    (gen.run[g].pc = "done" /\ gen.run[g].second) => Inserted(g) = {}

\* a second run has gone through a record that is in a category and found
\* the notification of the first run
C16_Witness ==
  \E g \in Runners :
    /\ gen.run[g].pc = "done"
    /\ gen.run[g].second
    /\ gen.calls = 0
    /\ Worklist(watched, gen.run[g].today) # <<>>
    /\ notifications # {}

AlertsAsWorded(r, d) ==
  LET on(f)       == f # NullDate
      past(f)     == IF on(f) THEN f[1] < d ELSE FALSE
      inWindow(f) == IF on(f) THEN d <= f[1] /\ f[1] <= d + 28 ELSE FALSE
      pending     == IF on(r.deletion_due_date)
                     THEN r.deletion_due_date[1] <= d ELSE FALSE
      expired     == past(r.expiry_date)
  IN {a \in {<<"Pending Deletion", "urgent">>, <<"Expired", "urgent">>,
              <<"Overdue", "warning">>, <<"Follow-up Due", "info">>,
              <<"Expiring Soon", "warning">>} :
        CASE a[1] = "Pending Deletion" -> pending
          [] a[1] = "Expired" -> expired /\ ~pending
          [] a[1] = "Overdue" ->
               past(r.follow_up_date) /\ ~expired /\ ~pending
          [] a[1] = "Follow-up Due" ->
               inWindow(r.follow_up_date) /\ ~expired /\ ~pending
          [] a[1] = "Expiring Soon" ->
               inWindow(r.expiry_date) /\ ~inWindow(r.follow_up_date)
                 /\ ~pending}

\* the same with 'Expiring Soon' only for a record whose follow-up date is
\* null or later than d + 28
Alerts(r, d) ==
  {a \in AlertsAsWorded(r, d) :
     a[1] = "Expiring Soon" =>
       ( IF r.follow_up_date = NullDate THEN TRUE
         ELSE r.follow_up_date[1] > d + 28 )}

\* the title prefix and severity of what run g inserted for record i
InsertedFor(g, i) ==
  {<<TitlePrefix(pr[1]), Severity(pr[1])>> :
     pr \in {x \in Inserted(g) : x[2] = i}}

C19_FailureDoesNotAbortRun ==
  \A g \in Runners : gen.run[g].pc = "failed" => gen.run[g].othersStored

(* --------------------- claims: concurrent sweeps ----------------------- *)

\* C20: a sweep that has returned reports every candidate none of whose
\* steps met a store failure as deleted, once and without an error, also
\* when another sweep had deleted the row first, and the row is gone; a
\* sweep that is under way can always take its next step
C20_AlreadyGoneIsNotFatal ==
  \A p \in Clients :
    /\ Returned(p) =>
         \A id \in CandidateIds(sweep[p]) :
           StepsSucceeded(sweep[p], id) =>
             /\ Count(sweep[p].deleted, id) = 1
             /\ ErrCount(sweep[p].errors, id) = 0
             /\ ~HasRow(rtw_records, id)
    /\ Running(sweep[p]) => ENABLED autoDeleteExpiredRecords(p)

\* two sweeps that fetched the same due record have both returned without
\* an error and both report the record as deleted
C20_Witness ==
  \E p, q \in Clients : \E id \in Ids :
    /\ p # q
    /\ Returned(p) /\ Returned(q)
    /\ id \in CandidateIds(sweep[p]) \cap CandidateIds(sweep[q])
    /\ Count(sweep[p].deleted, id) = 1 /\ Count(sweep[q].deleted, id) = 1
    /\ sweep[p].errors = <<>> /\ sweep[q].errors = <<>>
    /\ faults = 0
    /\ ~HasRow(rtw_records, id)

(* ------------------- claims: the ledger entry's reason ----------------- *)

\* the ledger entries a step adds
NewEntries == deleted_records' \ deleted_records

\* C21: the reason of a ledger entry follows the trigger: an entry the
\* client sweep writes carries "GDPR retention period expired", one the
\* scheduled sweep writes carries "GDPR retention period expired (auto)",
\* and one written for a manager's 'Delete now' carries "Manual deletion
\* by manager"
C21_ReasonFollowsTrigger ==
  [][/\ \A p \in Clients :
          (sweep[p].pc = "log" /\ sweep'[p].pc = "scans") =>
            \A e \in NewEntries : e.reason = "GDPR retention period expired"
     /\ (page.pc = "log" /\ page'.pc = "scans") =>
          \A e \in NewEntries : e.reason = "Manual deletion by manager"
     /\ (page.pc # "log" /\ \A p \in Clients : sweep[p].pc # "log") =>
          \A e \in NewEntries :
            e.reason = "GDPR retention period expired (auto)"]_vars

(* ------------------------ claims: no rollback -------------------------- *)

\* the candidates whose logRecordDeletion call the sweep has made with
\* success
LoggedBy(sw) ==
  {sw.records[k].id : k \in {n \in DOMAIN sw.records :
       /\ <<sw.records[n].id, "log">> \notin sw.stepFailed
       /\ \/ n < sw.i
          \/ n = sw.i /\ sw.pc \in {"scans", "delete", "done"}}}

\* the step in which the scan purge or the row delete of client p's
\* candidate id fails
FailsAfterLog(p, id) ==
  \E step \in {"scans", "delete"} :
    /\ <<id, step>> \notin sweep[p].stepFailed
    /\ <<id, step>> \in sweep'[p].stepFailed

ServerRunFails ==
  /\ sweeps' = sweeps + 1
  /\ faults' = faults + 1
  /\ page.pc # "ready"
  /\ UNCHANGED <<sweep, page, detail>>

\* C23: a failure while the scheduled sweep processes one due record does
\* not abort the others: after the run at most the record that failed is
\* still due, every other record the run selected is logged and deleted
C23_ServerFailureIsIsolated ==
  [][ServerRunFails =>
       \E bad \in DueIds(rtw_records, today) :
         \A id \in DueIds(rtw_records, today) \ {bad} :
           /\ ~HasRow(rtw_records', id)
           /\ LedgerFor(deleted_records', id) # {}]_vars

(* ---------------- claims: generator against classifier ----------------- *)

\* the categories whose WHERE clause selects record r on day d
TriggeredOn(r, d) == {c \in Categories : Trigger(c, r, d)}

\* C24: for a record that calculateStatus does not classify as
\* pending_onboarding, on the calendar day of the call, the generator's
\* category is the one of the status: Pending Deletion iff
\* pending_deletion, Expired iff expired, Overdue iff follow_up_overdue,
\* Follow-up Due or Expiring Soon iff follow_up_due, none iff valid
C24_GeneratorMirrorsClassifier ==
  (classifier.called /\ classifier.status # "pending_onboarding") =>
    LET on == TriggeredOn(classifier.record, Today)
    IN /\ 1 \in on <=> classifier.status = "pending_deletion"
       /\ 2 \in on <=> classifier.status = "expired"
       /\ 3 \in on <=> classifier.status = "follow_up_overdue"
       /\ (4 \in on \/ 5 \in on) <=> classifier.status = "follow_up_due"
       /\ on = {} <=> classifier.status = "valid"

\* a record whose expiry is the last day of the warning window and whose
\* follow-up is overdue has been classified east of UTC, at an hour when
\* UTC is a day behind
C24_Witness ==
  /\ classifier.called
  /\ classifier.tz > 0
  /\ classifier.now \div HoursPerDay < Today
  /\ classifier.record.expiry_date = <<Today + WarningDays>>
  /\ classifier.record.follow_up_date # NullDate
  /\ classifier.record.follow_up_date[1] < Today
  /\ classifier.status = "follow_up_overdue"
  /\ TriggeredOn(classifier.record, Today) = {3}

(* --------------- claims: candidates against classifier ----------------- *)

\* the candidate query, evaluated at the instant of the classifier's call,
\* selects the classified record
Selected == IsDue(classifier.record, toISODay(classifier.now))

\* the browser's calendar day is the date the candidate query compares with
SameDate == Today = toISODay(classifier.now)

\* C25 (as stated): for the same current date, the candidate query selects
\* a record iff calculateStatus returns pending_deletion for it
C25_CandidatesArePendingDeletion ==
  (classifier.called /\ SameDate) =>
    (Selected <=> classifier.status = "pending_deletion")

\* C25 (amended): for the same current date, the candidate query selects a
\* record iff calculateStatus returns pending_deletion for it, or returns
\* pending_onboarding for an onboarding record without check date whose
\* deletion due date has passed; no record of another status is selected
C25_CandidatesArePendingDeletionOrOnboarding ==
  (classifier.called /\ SameDate) =>
    /\ Selected => classifier.status \in {"pending_deletion",
                                            "pending_onboarding"}
    /\ classifier.status = "pending_deletion" => Selected
    /\ classifier.status # "pending_onboarding" =>
         (Selected <=> classifier.status = "pending_deletion")

\* a record due on the day itself has been classified pending_deletion in
\* a zone east of UTC, on the date the query compares with
C25_Witness ==
  /\ classifier.called
  /\ SameDate
  /\ classifier.tz > 0
  /\ classifier.record.deletion_due_date = <<Today>>
  /\ classifier.status = "pending_deletion"
  /\ Selected

(* ------------------ the sweep invoked again and again ------------------ *)

\* the retention page is opened once more: render(el) calls the sweep on
\* every visit, so when no sweep is under way the count of invocations
\* starts anew
retention_revisit ==
  /\ sweeps = MaxSweeps
  /\ \A p \in Clients : ~Running(sweep[p])
  /\ sweeps' = 0
  /\ UNCHANGED <<today, rtw_records, storage, deleted_records, audit_log,
                 cachedProfile, sweep, page, detail, removal, prior, faults,
                 scrubbed, lifecycleVars, sessionVars>>

\* the sweep of the browser session that keeps visiting the page
live_sweep == autoDeleteExpiredRecords(1) /\ UNCHANGED <<lifecycleVars, sessionVars>>

\* its identification step when the user and the profile resolve
live_identified ==
  autoDelete_identify(1) /\ sweep'[1].principal = "user"
                         /\ UNCHANGED <<lifecycleVars, sessionVars>>

NextLive ==
  \/ live_sweep
  \/ AdvanceDay /\ UNCHANGED <<lifecycleVars, sessionVars>>
  \/ retention_revisit

\* the page keeps being visited and the sweep it starts keeps running;
\* the visitor is again and again a signed-in user whose profile resolves;
\* a store call fails at most MaxFaults times
LiveFairness ==
  /\ WF_vars(live_sweep)
  /\ WF_vars(retention_revisit)
  /\ SF_vars(live_identified)

SpecLive == Init /\ [][NextLive]_vars /\ LiveFairness

(* -------------------------- claims: liveness --------------------------- *)

\* C26: under the fairness of SpecLive, every record whose deletion due
\* date has passed is eventually deleted, also when it became due while a
\* sweep was running or when its deletion failed in an earlier sweep
C26_DueRecordsAreEventuallyDeleted ==
  \A id \in Ids :
    (HasRow(rtw_records, id) /\ IsDue(RowOf(rtw_records, id), today))
      ~> ~HasRow(rtw_records, id)

\* a record whose row delete failed in one sweep, and that a later sweep
\* has deleted
C26_Witness ==
  \E id \in Ids :
    /\ ~HasRow(rtw_records, id)
    /\ removal[id].by = "sweep"
    /\ Cardinality(LedgerFor(deleted_records, id)) = 2
    /\ faults = MaxFaults

(* ------------- the sweep and the manager's end-date edits -------------- *)

\* client sweeps run while a manager saves, moves or clears employment end
\* dates on the record detail view (updateRecord with the new due date)
NextRace ==
  /\ \/ \E p \in Clients : autoDeleteExpiredRecords(p)
     \/ \E id \in Ids : \E due \in DueChoices : updateRecord(id, due)
  /\ UNCHANGED <<lifecycleVars, sessionVars>>

SpecRace == Init /\ [][NextRace]_vars

\* C27: whenever the sweep removes a record row, the row's
\* deletion_due_date in the store at that moment is non-null and <= today,
\* also when the end date was cleared or moved after the candidate fetch
C27_SweepDeletesOnlyDueRows ==
  [][\A id \in Ids :
       (HasRow(rtw_records, id) /\ ~HasRow(rtw_records', id)) =>
         IsDue(RowOf(rtw_records, id), today)]_vars

(* -------------------- the dashboard's status refresh ------------------- *)

\* the rows the dashboard can find: no end date, one whose due date has
\* passed on the clock's day and one whose due date is still to come, as
\* the save-end-date handler wrote them, with the status of either kind
\* (the handler leaves the status as it was)
RefreshRows(tz) ==
  {<<[employment_end_date |-> u.employment_end_date,
      deletion_due_date |-> u.deletion_due_date,
      status |-> st, gdrive_file_id |-> FALSE]>> :
     u \in {SaveEndDateUpdates(v, tz) :
              v \in {NullDate, <<FirstYear, 1, 1>>,
                     <<FirstYear + EndYears - 1, 6, 15>>}},
     st \in {"valid", "pending_deletion"}}

InitRefresh ==
  /\ RetentionIdle
  /\ \E z \in TzOffsets :
       /\ classifier =
            [NoClassifier EXCEPT
               !.tz = z,
               !.now = MakeDay(FirstYear + 4, 3, 1) * HoursPerDay + 12]
       /\ employment \in [Staff -> RefreshRows(z)]
  /\ watched = NoWatched
  /\ notifications = {}
  /\ gen = NoGen

\* employment end dates are cleared while the dashboard is rendered
NextRefresh ==
  \/ \E id \in Staff : clear_end_date(id)
  \/ dashboard_fetch
  \/ refreshStatuses_calculate
  \/ batchUpdateStatuses

SpecRefresh == InitRefresh /\ [][NextRefresh]_vars

\* the row of record i in the store is, but for its status, the one the
\* dashboard fetched
Unedited(i) ==
  /\ employment[i] # <<>>
  /\ dashboard.allRecords[i] # <<>>
  /\ \A f \in DOMAIN employment[i][1] \ {"status"} :
       employment[i][1][f] = dashboard.allRecords[i][1][f]

\* C28: when refreshStatuses has completed, for every listed record that
\* nobody has edited meanwhile the status in the store is
\* calculateStatus(record) and is the status held in memory, and only
\* records whose status was stale have been written
C28_RefreshPersistsStatus ==
  dashboard.pc = "done" =>
    \A i \in Staff :
      Unedited(i) =>
        /\ employment[i][1].status =
             StatusOf(employment[i][1], classifier.now, classifier.tz)
        /\ employment[i][1].status = dashboard.allRecords[i][1].status

(* ------------------ claims: categories over the days ------------------- *)

\* the categories record id has an undismissed notification of
OpenCategories(id) ==
  {c \in Categories :
     \E n \in Undismissed(notifications, id) : Like(n.title, TitlePrefix(c))}

\* C29: while only the generator writes to the notifications table (no
\* client insert, no dismissal), a record never has undismissed
\* notifications of two different categories at the same time
C29_OneCategoryAtATime ==
  gen.calls = 0 =>
    \A id \in Ids : Cardinality(OpenCategories(id)) <= 1

(* ------------------------ the cached profile --------------------------- *)

InitAuth ==
  /\ RetentionIdle
  /\ classifier = NoClassifier
  /\ employment = NoEmployment
  /\ watched = NoWatched
  /\ notifications = {}
  /\ gen = NoGen

NextAuth ==
  \/ \E u \in Users : auth_signIn(u)
  \/ auth_signOut_clear
  \/ auth_signOut_end
  \/ auth_state_change
  \/ \E c \in Callers : getUserProfile(c)

SpecAuth == InitAuth /\ [][NextAuth]_vars

\* C30: a getUserProfile call that has returned a profile returned the
\* profile of a user who was signed in at some moment of the call (when it
\* was called, when getUser() resolved, or when it returned), never the
\* profile of a user signed in before
C30_ProfileIsCurrentUsers ==
  \A c \in Callers :
    (auth.calls[c].pc = "returned" /\ auth.calls[c].returned # NoUser) =>
      auth.calls[c].returned \in {auth.calls[c].asked, auth.calls[c].user,
                                  auth.calls[c].session}

====
